---- MODULE Spec2Model ----
(***************************************************************************)
(* PumpSubscriber (src/src/smart_fetcher.rs, src/src/main.rs).             *)
(*                                                                         *)
(* Two state machines share this module:                                   *)
(*   Spec      - main() (the Supervisor) around run_once (the Framer and   *)
(*               the Session), fed by a broker byte stream that the        *)
(*               transport cuts into WebSocket frames;                     *)
(*   FetchSpec - one invocation of smart_ipfs_fetch_and_log with its       *)
(*               gateway tasks (fetch_from_gateway) running concurrently.  *)
(*                                                                         *)
(* A byte is a string naming it ("M", "SP", "CR", "LF", "xC3", ...); a     *)
(* Rust String / &str is the sequence of its UTF-8 bytes.  Option<T> is    *)
(* the empty tuple (None) or a one-element tuple (Some).                   *)
(***************************************************************************)
EXTENDS Integers, Sequences, FiniteSets, TLC

VARIABLES
    \* ---- main(), smart_fetcher.rs:841-883
    env,                 \* the PUMP_NATS_* variables of the environment: name -> Option
    connect_options,     \* Some(what build_connect_options returned), once called
    address,             \* the image address handed to extract_cid_from_url
    extracted,           \* Some(what extract_cid_from_url returned), once called
    smart_ipfs_enabled,  \* SMART_IPFS_ENABLED as SmartIpfsConfig::from_env() reads it
    vcfg,                \* let vcfg = ValidateConfig::from_env()
    config,              \* the timeouts and the threshold of SmartIpfsConfig::from_env()
    now,                 \* Instant::now(), in units of the discrete clock
    spawned,             \* engine invocations handed to tokio::spawn so far
    pc,                  \* where main() is: "connecting" | "running" | "failed" | "sleeping" | "panicked"
    backoff,             \* let mut backoff: u64
    reconnects,          \* the backoff_s of every "reconnect" record printed so far
    sleeps,              \* the seconds of every sleep(Duration::from_secs(backoff)) so far
    \* ---- the transport of the current connection
    wire,                \* the byte stream the broker sends on this connection
    pos,                 \* how many bytes of wire the transport has delivered
    pings,               \* WebSocket Ping frames delivered on this connection
    io,                  \* the latest result of the transport: [op, what]
    \* ---- run_once, smart_fetcher.rs:681-685
    partial,
    expected_payload,
    expected_header_len,
    current_subject,
    connected,
    events,              \* what run_once did on this connection, in order
    \* ---- smart_ipfs_fetch_and_log, smart_fetcher.rs:365-591
    total_start,         \* let total_start = Instant::now()
    fallback_start,      \* let fallback_start = Instant::now()
    epc,                 \* where the engine is: "idle" | "select" | "fallback" | "race" | "done"
    public_gateways,     \* config.public_gateways.len()
    tasks,               \* the spawned gateway tasks: id -> [st, bytes]
    local_consumed,      \* the local JoinHandle was polled to completion in the select!
    remaining_tasks,     \* Vec of JoinHandles (task ids) awaited by select_all
    failed_gateways,     \* failed_gateways.len()
    records              \* the engine's print_line records, in order

sessionVars == <<wire, pos, pings, io, partial, expected_payload, expected_header_len,
                 current_subject, connected, events>>
mainVars == <<pc, backoff, reconnects, sleeps>>
fetchVars == <<epc, public_gateways, tasks, local_consumed, remaining_tasks,
               failed_gateways, records, total_start, fallback_start>>
envVars == <<smart_ipfs_enabled, vcfg, config, now, env>>
fnVars == <<connect_options, address, extracted>>
vars == <<mainVars, sessionVars, fetchVars, envVars, fnVars, spawned>>

None == <<>>
Some(x) == <<x>>
IsSome(o) == o # <<>>
Unwrap(o) == o[1]

Min(a, b) == IF a <= b THEN a ELSE b

(***************************************************************************)
(* Bytes and UTF-8.                                                        *)
(***************************************************************************)
CRLF == <<"CR", "LF">>

\* UTF-8 continuation bytes (0x80..0xBF) and lead bytes of the alphabet.
ContBytes == {"xA9", "xBF", "xBD"}
Lead2Bytes == {"xC3"}
Lead3Bytes == {"xEF"}

\* U+FFFD REPLACEMENT CHARACTER, EF BF BD.
REPLACEMENT == <<"xEF", "xBF", "xBD">>

Drop(s, n) == SubSeq(s, n + 1, Len(s))
Take(s, n) == SubSeq(s, 1, n)

\* String::from_utf8_lossy: each maximal invalid part becomes one U+FFFD.
RECURSIVE FromUtf8Lossy(_)
FromUtf8Lossy(bin) ==
    IF bin = <<>> THEN <<>>
    ELSE LET b == bin[1]
             c1 == Len(bin) >= 2 /\ bin[2] \in ContBytes
             c2 == Len(bin) >= 3 /\ bin[3] \in ContBytes
         IN CASE b \in Lead2Bytes /\ c1 -> Take(bin, 2) \o FromUtf8Lossy(Drop(bin, 2))
              [] b \in Lead2Bytes /\ ~c1 -> REPLACEMENT \o FromUtf8Lossy(Drop(bin, 1))
              [] b \in Lead3Bytes /\ c1 /\ c2 -> Take(bin, 3) \o FromUtf8Lossy(Drop(bin, 3))
              [] b \in Lead3Bytes /\ c1 /\ ~c2 -> REPLACEMENT \o FromUtf8Lossy(Drop(bin, 2))
              [] b \in Lead3Bytes /\ ~c1 -> REPLACEMENT \o FromUtf8Lossy(Drop(bin, 1))
              [] b \in ContBytes -> REPLACEMENT \o FromUtf8Lossy(Drop(bin, 1))
              [] OTHER -> <<b>> \o FromUtf8Lossy(Drop(bin, 1))

\* A Message::Text frame holds a String: tungstenite delivers only valid UTF-8.
IsValidUtf8(bytes) == FromUtf8Lossy(bytes) = bytes

\* str::is_char_boundary
IsCharBoundary(s, i) ==
    \/ i = 0
    \/ i = Len(s)
    \/ i > 0 /\ i < Len(s) /\ s[i + 1] \notin ContBytes

StartsWith(s, p) == Len(s) >= Len(p) /\ Take(s, Len(p)) = p

\* The index of the first CRLF of s, or 0 (str::contains / str::split_once).
FindCRLF(s) ==
    LET hits == {i \in 1..(Len(s) - 1) : s[i] = "CR" /\ s[i + 1] = "LF"}
    IN IF hits = {} THEN 0 ELSE CHOOSE i \in hits : \A j \in hits : i <= j

Whitespace == {"SP", "TAB", "CR", "LF"}

\* str::split_whitespace
RECURSIVE SplitWhitespace(_)
SplitWhitespace(s) ==
    IF s = <<>> THEN <<>>
    ELSE IF s[1] \in Whitespace THEN SplitWhitespace(Drop(s, 1))
    ELSE LET ends == {i \in 1..Len(s) : s[i] \in Whitespace}
             n == IF ends = {} THEN Len(s)
                  ELSE (CHOOSE i \in ends : \A j \in ends : i <= j) - 1
         IN <<Take(s, n)>> \o SplitWhitespace(Drop(s, n))

Digits == <<"0", "1", "2", "3", "4", "5", "6", "7", "8", "9">>
DigitSet == {Digits[i] : i \in 1..10}
DigitVal(d) == (CHOOSE i \in 1..10 : Digits[i] = d) - 1

RECURSIVE DecimalValue(_)
DecimalValue(ds) ==
    IF ds = <<>> THEN 0
    ELSE 10 * DecimalValue(Take(ds, Len(ds) - 1)) + DigitVal(ds[Len(ds)])

\* str::parse::<usize>: an optional "+", then one or more decimal digits.
ParseUsize(tok) ==
    LET ds == IF tok # <<>> /\ tok[1] = "+" THEN Drop(tok, 1) ELSE tok
    IN IF ds # <<>> /\ \A i \in 1..Len(ds) : ds[i] \in DigitSet
       THEN Some(DecimalValue(ds))
       ELSE None

(***************************************************************************)
(* Strings of characters: str::find, str::split, str::trim and the ASCII   *)
(* lowercasing the url crate applies to the host of a special scheme.      *)
(***************************************************************************)
\* str::find(pat): the index of the first occurrence of pat in s, or 0.
Find(s, pat) ==
    LET hits == {i \in 1..(Len(s) - Len(pat) + 1) : SubSeq(s, i, i + Len(pat) - 1) = pat}
    IN IF hits = {} THEN 0 ELSE CHOOSE i \in hits : \A j \in hits : i <= j

EndsWith(s, p) == Len(s) >= Len(p) /\ SubSeq(s, Len(s) - Len(p) + 1, Len(s)) = p

\* str::split(c) for a one-character separator, collected.
RECURSIVE Split(_, _)
Split(s, c) ==
    LET at == Find(s, <<c>>)
    IN IF at = 0 THEN <<s>> ELSE <<Take(s, at - 1)>> \o Split(Drop(s, at), c)

\* str::trim
RECURSIVE Trim(_)
Trim(s) ==
    IF s = <<>> THEN s
    ELSE IF s[1] \in Whitespace THEN Trim(Drop(s, 1))
    ELSE IF s[Len(s)] \in Whitespace THEN Trim(Take(s, Len(s) - 1))
    ELSE s

UpperCase == <<"A", "B", "C", "D", "E", "F", "G", "H", "I", "J", "K", "L", "M",
               "N", "O", "P", "Q", "R", "S", "T", "U", "V", "W", "X", "Y", "Z">>
LowerCase == <<"a", "b", "c", "d", "e", "f", "g", "h", "i", "j", "k", "l", "m",
               "n", "o", "p", "q", "r", "s", "t", "u", "v", "w", "x", "y", "z">>
Letters == {UpperCase[i] : i \in 1..26} \cup {LowerCase[i] : i \in 1..26}

ToAsciiLowercase(s) ==
    [i \in 1..Len(s) |->
        IF \E k \in 1..26 : UpperCase[k] = s[i]
        THEN LowerCase[CHOOSE k \in 1..26 : UpperCase[k] = s[i]]
        ELSE s[i]]

\* A string literal as its characters.
IPFS == <<"i", "p", "f", "s">>
HTTPS == <<"h", "t", "t", "p", "s">>
DOT_IPFS_DOT == <<".">> \o IPFS \o <<".">>
DOT_IPFS_DWEB_LINK == DOT_IPFS_DOT \o <<"d", "w", "e", "b", ".", "l", "i", "n", "k">>

(***************************************************************************)
(* Url::parse (the url crate) on the addresses of this model: a scheme,    *)
(* "://", a host, a path; no userinfo, port, query or fragment.            *)
(*   - no scheme: Err (a relative URL without a base);                     *)
(*   - http/https (special): slashes after the scheme are skipped, the     *)
(*     host must not be empty and is lowercased, an empty path is "/";     *)
(*   - any other scheme: the host is kept as written, may be empty (then   *)
(*     host_str() is None) and the path is kept as written.                *)
(* path_segments() is None unless the path begins with "/".                *)
(***************************************************************************)
SpecialSchemes == {HTTPS, <<"h", "t", "t", "p">>}

RECURSIVE SkipSlashes(_)
SkipSlashes(s) == IF s # <<>> /\ s[1] = "/" THEN SkipSlashes(Drop(s, 1)) ELSE s

Url(scheme, host, path) == [ok |-> TRUE, scheme |-> scheme, host |-> host, path |-> path]
UrlErr == [ok |-> FALSE, scheme |-> <<>>, host |-> None, path |-> <<>>]

\* A special scheme: auth is what follows the scheme's slashes, slash the index
\* of its first "/" (0: none).
SpecialUrl(scheme, auth, slash) ==
    IF slash = 1 \/ auth = <<>> THEN UrlErr
    ELSE IF slash = 0 THEN Url(scheme, Some(ToAsciiLowercase(auth)), <<"/">>)
    ELSE Url(scheme, Some(ToAsciiLowercase(Take(auth, slash - 1))), Drop(auth, slash - 1))

\* Any other scheme followed by "//".
AuthorityUrl(scheme, auth, slash) ==
    IF slash = 0 THEN Url(scheme, IF auth = <<>> THEN None ELSE Some(auth), <<>>)
    ELSE Url(scheme, IF slash = 1 THEN None ELSE Some(Take(auth, slash - 1)),
             Drop(auth, slash - 1))

UrlOfScheme(scheme, after) ==
    IF scheme \in SpecialSchemes
    THEN SpecialUrl(scheme, SkipSlashes(after), Find(SkipSlashes(after), <<"/">>))
    ELSE IF StartsWith(after, <<"/", "/">>)
    THEN AuthorityUrl(scheme, Drop(after, 2), Find(Drop(after, 2), <<"/">>))
    ELSE Url(scheme, None, after)

\* s is trimmed; colon is the index of its first ":" (0: none).
UrlWithScheme(s, colon) ==
    IF colon <= 1 \/ \E i \in 1..(colon - 1) : s[i] \notin Letters THEN UrlErr
    ELSE UrlOfScheme(ToAsciiLowercase(Take(s, colon - 1)), Drop(s, colon))

UrlParse(input) == UrlWithScheme(Trim(input), Find(Trim(input), <<":">>))

\* Url::path_segments
PathSegments(u) ==
    IF u.path # <<>> /\ u.path[1] = "/" THEN Some(Split(Drop(u.path, 1), "/")) ELSE None

\* if u.scheme() == "ipfs" { ... return None; }
CidOfIpfsUrl(host, segs) ==
    IF IsSome(host) /\ Unwrap(host) # <<>> THEN host
    ELSE IF IsSome(segs) THEN Some(Unwrap(segs)[1])
    ELSE None

\* path style: /ipfs/<cid>/...
CidOfPath(segs) ==
    IF IsSome(segs) /\ Unwrap(segs)[1] = IPFS /\ Len(Unwrap(segs)) >= 2
    THEN Some(Unwrap(segs)[2])
    ELSE None

\* if let Some(host) = u.host_str() { ... }, then the path style; at is
\* host.find(".ipfs.") as an index from 1 (0: not found).
CidOfHost(host, at, segs) ==
    IF at > 1 THEN Some(Take(host, at - 1))
    ELSE IF EndsWith(host, DOT_IPFS_DWEB_LINK) /\ Split(host, ".")[1] # <<>>
    THEN Some(Split(host, ".")[1])
    ELSE CidOfPath(segs)

CidOfUrl(s, u, segs) ==
    IF ~u.ok THEN (IF Trim(s) # <<>> THEN Some(Trim(s)) ELSE None)
    ELSE IF u.scheme = IPFS THEN CidOfIpfsUrl(u.host, segs)
    ELSE IF IsSome(u.host) THEN CidOfHost(Unwrap(u.host), Find(Unwrap(u.host), DOT_IPFS_DOT), segs)
    ELSE CidOfPath(segs)

\* fn extract_cid_from_url(s: &str) -> Option<String>
extract_cid_from_url(s) == CidOfUrl(s, UrlParse(s), PathSegments(UrlParse(s)))

(***************************************************************************)
(* build_connect_options (smart_fetcher.rs:170-203; the same code is       *)
(* main.rs:170-203).  The environment is a function from the names of the  *)
(* variables to Option<String>; a serde_json Map is a function from its    *)
(* keys to the values, written as strings.                                 *)
(***************************************************************************)
EnvNames == {"PUMP_NATS_USER", "PUMP_NATS_PASS", "PUMP_NATS_PASSWORD", "PUMP_NATS_TOKEN",
             "PUMP_NATS_JWT", "PUMP_NATS_SIG"}

\* The value a variable has when it is set.
EnvValue(name) == "$" \o name

EnvUnset == [name \in EnvNames |-> None]

\* Map::insert, Map::remove
MapInsert(m, k, v) == [x \in DOMAIN m \cup {k} |-> IF x = k THEN v ELSE m[x]]
MapRemove(m, k) == [x \in DOMAIN m \ {k} |-> m[x]]

\* env::var(a).or_else(|_| env::var(b)).unwrap_or_else(|_| default)
VarOr(e, a, b, default) ==
    IF IsSome(e[a]) THEN Unwrap(e[a]) ELSE IF IsSome(e[b]) THEN Unwrap(e[b]) ELSE default

\* let mut m = Map::new(); m.insert("no_responders".into(), ..); ... "headers"
BaseOptions(user, password) ==
    [k \in {"no_responders", "protocol", "verbose", "pedantic", "user", "pass", "lang",
            "version", "headers"} |->
        CASE k = "no_responders" -> "true"
          [] k = "protocol" -> "1"
          [] k = "verbose" -> "false"
          [] k = "pedantic" -> "false"
          [] k = "user" -> user
          [] k = "pass" -> password
          [] k = "lang" -> "nats.ws"
          [] k = "version" -> "1.30.3"
          [] OTHER -> "true"]

\* if let Ok(token) = env::var("PUMP_NATS_TOKEN") { .. }
WithToken(m, e) ==
    IF IsSome(e["PUMP_NATS_TOKEN"])
    THEN MapInsert(MapRemove(MapRemove(m, "user"), "pass"), "auth_token",
                   Unwrap(e["PUMP_NATS_TOKEN"]))
    ELSE m

\* if let Ok(sig) = env::var("PUMP_NATS_SIG") { m.insert("sig".into(), ..); }
WithSig(m, e) ==
    IF IsSome(e["PUMP_NATS_SIG"]) THEN MapInsert(m, "sig", Unwrap(e["PUMP_NATS_SIG"])) ELSE m

\* if let Ok(jwt) = env::var("PUMP_NATS_JWT") { .. }
WithJwt(m, e) ==
    IF IsSome(e["PUMP_NATS_JWT"])
    THEN WithSig(MapInsert(MapRemove(MapRemove(m, "user"), "pass"), "jwt",
                           Unwrap(e["PUMP_NATS_JWT"])), e)
    ELSE m

\* fn build_connect_options() -> Value
build_connect_options(e) ==
    WithJwt(WithToken(BaseOptions(VarOr(e, "PUMP_NATS_USER", "PUMP_NATS_USER", "subscriber"),
                                  VarOr(e, "PUMP_NATS_PASS", "PUMP_NATS_PASSWORD",
                                        "OktDhmZ2D3CtYUiM")), e), e)

(***************************************************************************)
(* serde_json on the payloads of this model: an object whose members are   *)
(* strings without escapes, unsigned numbers or null, a number, a string;  *)
(* no whitespace.  Any other text of the model is a syntax error.          *)
(***************************************************************************)
QUOTE == "\""
BACKSLASH == "\\"

\* The characters of a JSON string after its opening quote, up to the closing
\* one, with \" and \\ unescaped; None when the string does not end at the
\* end of s.
RECURSIVE Unescape(_)
Unescape(s) ==
    IF s = <<>> THEN None
    ELSE IF s[1] = QUOTE THEN (IF Len(s) = 1 THEN Some(<<>>) ELSE None)
    ELSE IF s[1] = BACKSLASH
    THEN IF Len(s) >= 2 /\ s[2] \in {QUOTE, BACKSLASH}
         THEN LET r == Unescape(Drop(s, 2))
              IN IF IsSome(r) THEN Some(<<s[2]>> \o Unwrap(r)) ELSE None
         ELSE None
    ELSE LET r == Unescape(Drop(s, 1))
         IN IF IsSome(r) THEN Some(<<s[1]>> \o Unwrap(r)) ELSE None

\* serde_json::from_str::<String>(text)
JsonString(text) ==
    IF text # <<>> /\ text[1] = QUOTE THEN Unescape(Drop(text, 1)) ELSE None

LeadingDigits(s) ==
    LET stops == {i \in 1..Len(s) : s[i] \notin DigitSet}
    IN IF stops = {} THEN Len(s) ELSE (CHOOSE i \in stops : \A j \in stops : i <= j) - 1

JsonErr == [ok |-> FALSE, members |-> <<>>]
HasBackslash(s) == \E i \in 1..Len(s) : s[i] = BACKSLASH

\* A member [key, str, null]: str is Some(the value) for a string value, None
\* for a number and for null.
Member(key, str) == [key |-> key, str |-> str, null |-> FALSE]
NullMember(key) == [key |-> key, str |-> None, null |-> TRUE]

\* The members of an object from its first key to its closing brace.
RECURSIVE JsonMembers(_)

\* After a member: the closing brace, or a comma and the members after it.
JsonMore(member, rest) ==
    IF rest = <<"}">> THEN [ok |-> TRUE, members |-> <<member>>]
    ELSE IF rest # <<>> /\ rest[1] = "," /\ JsonMembers(Drop(rest, 1)).ok
    THEN [ok |-> TRUE, members |-> <<member>> \o JsonMembers(Drop(rest, 1)).members]
    ELSE JsonErr

\* The member's value begins v: a string that closes at v[vq + 1], null, or
\* n digits.
JsonMemberValue(key, v, vq, n) ==
    IF v # <<>> /\ v[1] = QUOTE
    THEN IF vq = 0 \/ HasBackslash(Take(v, vq)) THEN JsonErr
         ELSE JsonMore(Member(key, Some(SubSeq(v, 2, vq))), Drop(v, vq + 1))
    ELSE IF Len(v) >= 4 /\ Take(v, 4) = <<"n", "u", "l", "l">>
    THEN JsonMore(NullMember(key), Drop(v, 4))
    ELSE IF n = 0 THEN JsonErr
    ELSE JsonMore(Member(key, None), Drop(v, n))

\* t begins with the key, whose closing quote is t[kq + 1].
JsonMember(t, kq) ==
    IF t = <<>> \/ t[1] # QUOTE \/ kq = 0 THEN JsonErr
    ELSE IF Len(t) < kq + 2 \/ t[kq + 2] # ":" \/ HasBackslash(Take(t, kq)) THEN JsonErr
    ELSE JsonMemberValue(SubSeq(t, 2, kq), Drop(t, kq + 2),
                         Find(Drop(t, kq + 3), <<QUOTE>>), LeadingDigits(Drop(t, kq + 2)))

JsonMembers(t) == JsonMember(t, Find(Drop(t, 1), <<QUOTE>>))

JsonObject(m) ==
    IF m.ok THEN [kind |-> "object", members |-> m.members]
    ELSE [kind |-> "error", members |-> <<>>]

\* serde_json::from_str::<Value>(text): "object" (with its members), "other"
\* (a value that is not an object) or "error".
JsonValue(text) ==
    IF text = <<"{", "}">> THEN [kind |-> "object", members |-> <<>>]
    ELSE IF text # <<>> /\ text[1] = "{" THEN JsonObject(JsonMembers(Drop(text, 1)))
    ELSE IF IsSome(JsonString(text)) THEN [kind |-> "other", members |-> <<>>]
    ELSE IF text # <<>> /\ LeadingDigits(text) = Len(text) THEN [kind |-> "other", members |-> <<>>]
    ELSE [kind |-> "error", members |-> <<>>]

\* obj.get(key).and_then(|v| v.as_str()).unwrap_or("")
GetStr(members, key) ==
    LET at == {i \in 1..Len(members) : members[i].key = key}
    IN IF at # {} /\ IsSome(members[CHOOSE i \in at : \A j \in at : j <= i].str)
       THEN Unwrap(members[CHOOSE i \in at : \A j \in at : j <= i].str)
       ELSE <<>>

(***************************************************************************)
(* try_spawn_smart_ipfs_fetch (smart_fetcher.rs:593-658): what the call    *)
(* does with one Message: nothing ("none"), a smart_ipfs_skip record       *)
(* ("skip", with its reason) or tokio::spawn of the engine ("spawn", with  *)
(* the cid).                                                               *)
(***************************************************************************)
COIN_IMAGE_UPDATED ==
    <<"c", "o", "i", "n", "I", "m", "a", "g", "e", "U", "p", "d", "a", "t", "e", "d">>
IMAGE == <<"i", "m", "a", "g", "e">>

Outcome(does, reason, cid) == [does |-> does, reason |-> reason, cid |-> cid]

\* if text.starts_with('"') && text.ends_with('"') { if let Ok(unwrapped) = .. }
Unwrapped(body, unwrapped) ==
    IF StartsWith(body, <<QUOTE>>) /\ EndsWith(body, <<QUOTE>>) /\ IsSome(unwrapped)
    THEN Unwrap(unwrapped)
    ELSE body

Unquoted(body) == Unwrapped(body, JsonString(body))

\* if let Some(cid) = extract_cid_from_url(&image_s) { tokio::spawn(..) } else { no_cid }
SpawnFromCid(cid) ==
    IF IsSome(cid) THEN Outcome("spawn", "", Unwrap(cid)) ELSE Outcome("skip", "no_cid", <<>>)

\* Ok(Value::Object(obj)) => { ... }
SpawnFromImage(image_s) ==
    IF image_s = <<>> THEN Outcome("skip", "no_image", <<>>)
    ELSE SpawnFromCid(extract_cid_from_url(image_s))

\* match serde_json::from_str::<Value>(&text) { ... }
SpawnFromValue(value) ==
    CASE value.kind = "error" -> Outcome("skip", "json_parse_error", <<>>)
      [] value.kind = "other" -> Outcome("skip", "json_not_object", <<>>)
      [] OTHER -> SpawnFromImage(GetStr(value.members, IMAGE))

SpawnFromJson(body) == SpawnFromValue(JsonValue(Unquoted(body)))

\* try_spawn_smart_ipfs_fetch without the test of the subject.
try_spawn_any_subject(subject, body, enabled) ==
    IF ~enabled THEN Outcome("none", "", <<>>) ELSE SpawnFromJson(body)

\* fn try_spawn_smart_ipfs_fetch(subject: &str, body: &str, config: &SmartIpfsConfig)
try_spawn_smart_ipfs_fetch(subject, body, enabled) ==
    IF ~enabled THEN Outcome("none", "", <<>>)
    ELSE IF ~StartsWith(subject, COIN_IMAGE_UPDATED) THEN Outcome("none", "", <<>>)
    ELSE SpawnFromJson(body)

(***************************************************************************)
(* run_once: the Framer and the Session (smart_fetcher.rs:660-838; the     *)
(* same code is main.rs:440-618).  One iteration of its loop is either a   *)
(* read of the transport (OnFrame) or a step on the buffer (Process).      *)
(* A session is the record of run_once's locals, what it did so far        *)
(* (events) and how it ended (ret: "run" | "err" | "panic").               *)
(***************************************************************************)
Ev(ev, arg, subject, body, len, hlen) ==
    [ev |-> ev, arg |-> arg, subject |-> subject, body |-> body, len |-> len, hlen |-> hlen]

SendEv(cmd) == Ev("send", cmd, <<>>, <<>>, 0, 0)
ReturnErr(s, why) ==
    [s EXCEPT !.ret = "err", !.events = Append(@, Ev("return_err", why, <<>>, <<>>, 0, 0))]
Panic(s, why) ==
    [s EXCEPT !.ret = "panic", !.events = Append(@, Ev("panic", why, <<>>, <<>>, 0, 0))]

\* NewSession that keeps the buffer and the flags of the Session before it.
NewSessionKeepsState ==
    [partial |-> partial, expected_payload |-> expected_payload,
     expected_header_len |-> expected_header_len, current_subject |-> current_subject,
     connected |-> connected, events |-> <<>>, ret |-> "run"]

\* let mut partial = String::new(); ... let mut connected = false;
NewSession ==
    [partial |-> <<>>, expected_payload |-> None, expected_header_len |-> None,
     current_subject |-> None, connected |-> FALSE, events |-> <<>>, ret |-> "run"]

\* The two guards under which the loop calls ws.next().
NeedsRead(s) ==
    IF IsSome(s.expected_payload)
    THEN Len(s.partial) < Unwrap(s.expected_payload) + 2
    ELSE FindCRLF(s.partial) = 0

\* What ws.next() can return.  sendOk: whether the reply to a Ping frame is sent.
Frame(kind, data) == [kind |-> kind, data |-> data]

\* OnPing that forgets the pending payload.
OnPingDropsPending(s, sendOk) ==
    IF sendOk
    THEN [s EXCEPT !.events = Append(@, SendEv("ws_pong")), !.expected_payload = None]
    ELSE [s EXCEPT !.expected_payload = None]

\* Some(Ok(Message::Ping(_))) => { ws.send(Message::Pong(Vec::new())).await.ok(); }
OnPing(s, sendOk) ==
    IF sendOk THEN [s EXCEPT !.events = Append(@, SendEv("ws_pong"))] ELSE s

\* OnClose with the Close arm missing at the payload-mode read site.
OnCloseIgnoredInPayload(s) ==
    IF IsSome(s.expected_payload) THEN s ELSE ReturnErr(s, "websocket closed")

\* Some(Ok(Message::Close(_))) | None => return Err("websocket closed".into())
OnClose(s) == ReturnErr(s, "websocket closed")

\* Some(Err(e)) => return Err(Box::new(e))
OnReadError(s) == ReturnErr(s, "transport error")

\* match ws.next().await { ... }: the same arms at both read sites.
OnFrame(s, f, sendOk) ==
    CASE f.kind = "Text" -> [s EXCEPT !.partial = @ \o f.data]
      [] f.kind = "Binary" -> [s EXCEPT !.partial = @ \o FromUtf8Lossy(f.data)]
      [] f.kind = "Ping" -> OnPing(s, sendOk)
      [] f.kind \in {"Pong", "Frame"} -> s
      [] f.kind \in {"Close", "None"} -> OnClose(s)
      [] OTHER -> OnReadError(s)

(***************************************************************************)
(* print_parsed_line (smart_fetcher.rs:75-168; the same code is            *)
(* main.rs:75-168): the records it prints for one Message, in order.       *)
(***************************************************************************)
\* struct ValidateConfig, without require_info_keys (not read by print_parsed_line).
ValidateConfig(enabled, allowed_subject_prefixes, require_mint, require_image) ==
    [enabled |-> enabled, allowed_subject_prefixes |-> allowed_subject_prefixes,
     require_mint |-> require_mint, require_image |-> require_image]

\* ValidateConfig::from_env() with no VALIDATE_* variable set.
ValidateDefault == ValidateConfig(FALSE, <<>>, FALSE, FALSE)

Line(kind, reason, subject) == Ev(kind, reason, subject, <<>>, 0, 0)

\* match obj.get(key) { Some(Value::String(s)) => s.is_empty(),
\*                      Some(Value::Null) | None => true, _ => false }
Missing(members, key) ==
    LET at == {i \in 1..Len(members) : members[i].key = key}
    IN \/ at = {}
       \/ members[CHOOSE i \in at : \A j \in at : j <= i].null
       \/ /\ IsSome(members[CHOOSE i \in at : \A j \in at : j <= i].str)
          /\ Unwrap(members[CHOOSE i \in at : \A j \in at : j <= i].str) = <<>>

\* !allowed_subject_prefixes.is_empty() && !allowed_subject_prefixes.iter().any(..)
SubjectDisallowed(subject, prefixes) ==
    /\ prefixes # <<>>
    /\ ~\E i \in 1..Len(prefixes) : StartsWith(subject, prefixes[i])

\* if vcfg.enabled { ... }: the validation_error records of an object.
ValidationErrors(subject, members, cfg) ==
    IF ~cfg.enabled THEN <<>>
    ELSE (IF SubjectDisallowed(subject, cfg.allowed_subject_prefixes)
          THEN <<Line("validation_error", "subject_disallowed", subject)>> ELSE <<>>)
         \o (IF cfg.require_mint /\ Missing(members, <<"m", "i", "n", "t">>)
             THEN <<Line("validation_error", "missing_mint", subject)>> ELSE <<>>)
         \o (IF cfg.require_image /\ Missing(members, IMAGE)
             THEN <<Line("validation_error", "missing_image", subject)>> ELSE <<>>)

\* match serde_json::from_str::<Value>(&text) { Ok(Value::Object(obj)) => .., Ok(_) => .., Err(err) => .. }
PrintParsedValue(subject, value, cfg) ==
    CASE value.kind = "error" -> <<Line("line", "error", subject)>>
      [] value.kind = "other" -> <<Line("line", "non_object", subject)>>
      [] OTHER -> <<Line("line", "object", subject)>>
                      \o ValidationErrors(subject, value.members, cfg)

\* fn print_parsed_line(subject: &str, payload: &str, vcfg: &ValidateConfig)
print_parsed_line(subject, payload, cfg) ==
    PrintParsedValue(subject, JsonValue(Unquoted(payload)), cfg)

\* What a call of try_spawn_smart_ipfs_fetch adds to the Session's history.
SpawnEvents(subject, o) ==
    CASE o.does = "spawn" -> <<Ev("spawn", "", subject, o.cid, 0, 0)>>
      [] o.does = "skip" -> <<Ev("smart_ipfs_skip", o.reason, subject, <<>>, 0, 0)>>
      [] OTHER -> <<>>

\* Dispatch that ends the Session on a payload that is not JSON.
DispatchOrFail(s, subject, body) ==
    IF JsonValue(Unquoted(body)).kind = "error"
    THEN ReturnErr([s EXCEPT !.events = Append(@, Ev("print_parsed_line", "", subject, body, 0, 0))],
                   "bad payload")
    ELSE [s EXCEPT !.events = @ \o <<Ev("print_parsed_line", "", subject, body, 0, 0)>>
                                 \o print_parsed_line(subject, body, vcfg)
                                 \o <<Ev("try_spawn", "", subject, body, 0, 0)>>]

\* print_parsed_line(subject, body, vcfg); try_spawn_smart_ipfs_fetch(subject, body, ..)
Dispatch(s, subject, body) ==
    [s EXCEPT !.events = @ \o <<Ev("print_parsed_line", "", subject, body, 0, 0)>>
                            \o print_parsed_line(subject, body, vcfg)
                            \o <<Ev("try_spawn", "", subject, body, 0, 0)>>
                            \o SpawnEvents(subject,
                                           try_spawn_smart_ipfs_fetch(subject, body,
                                                                      smart_ipfs_enabled))]

\* current_subject.as_deref().unwrap_or("")
SubjectOrEmpty(o) == IF IsSome(o) THEN Unwrap(o) ELSE <<>>

\* if let Some(len) = expected_payload { ... } with the payload buffered.
TakePayload(s) ==
    LET len == Unwrap(s.expected_payload)
        p == s.partial
        payload_block == Take(p, len)
        rest == IF SubSeq(p, len + 1, len + 2) = CRLF THEN Drop(p, len + 2) ELSE Drop(p, len)
        cut == [s EXCEPT !.partial = rest]
        subject == SubjectOrEmpty(s.current_subject)
        done(t) == [t EXCEPT !.expected_payload = None, !.current_subject = None]
    IN IF ~IsCharBoundary(p, len) THEN Panic(s, "partial[..len]")
       ELSE IF ~IsCharBoundary(p, len + 2) THEN Panic(s, "partial[len..len + 2]")
       ELSE IF IsSome(s.expected_header_len)
       THEN LET hlen == Unwrap(s.expected_header_len)
                taken == [cut EXCEPT !.expected_header_len = None]
            IN IF hlen > len \/ ~IsCharBoundary(payload_block, hlen)
               THEN Panic(taken, "payload_block[hlen..]")
               ELSE done(Dispatch(taken, subject, Drop(payload_block, hlen)))
       ELSE done(Dispatch(cut, subject, payload_block))

\* The handshake: four sends, the fail-th of which (if any) returns Err.
HandshakeCmds ==
    <<"CONNECT", "SUB advancedNewCoinCreated 4", "SUB coinImageUpdated.> 2", "PING">>

\* Handshake without `connected = true`.
HandshakeStaysUnconnected(s, fail) ==
    LET n == IF fail \in 1..4 THEN fail - 1 ELSE 4
        sent == [s EXCEPT !.events = @ \o [i \in 1..n |-> SendEv(HandshakeCmds[i])]]
    IN IF fail \in 1..4 THEN ReturnErr(sent, "send failed") ELSE sent

Handshake(s, fail) ==
    LET n == IF fail \in 1..4 THEN fail - 1 ELSE 4
        sent == [s EXCEPT !.events = @ \o [i \in 1..n |-> SendEv(HandshakeCmds[i])]]
    IN IF fail \in 1..4 THEN ReturnErr(sent, "send failed")
       ELSE [sent EXCEPT !.connected = TRUE]

OnMsgLine(s, line) ==
    LET parts == SplitWhitespace(line)
    IN IF Len(parts) < 4 THEN ReturnErr(s, "Bad MSG header")
       ELSE LET n == ParseUsize(parts[4])
            IN IF ~IsSome(n) THEN ReturnErr(s, "Invalid length in MSG")
               ELSE [s EXCEPT !.current_subject = Some(parts[2]),
                              !.expected_payload = n,
                              !.expected_header_len = None,
                              !.events = Append(@, Ev("frame", "MSG", parts[2], <<>>, Unwrap(n), 0))]

\* OnHmsgLine that records no subject.
OnHmsgLineNoSubject(s, line) ==
    LET parts == SplitWhitespace(line)
    IN IF Len(parts) < 5 THEN ReturnErr(s, "Bad HMSG header")
       ELSE LET h == ParseUsize(parts[4])
                n == ParseUsize(parts[5])
            IN IF ~IsSome(h) THEN ReturnErr(s, "Invalid hdr_len in HMSG")
               ELSE IF ~IsSome(n) THEN ReturnErr(s, "Invalid total_len in HMSG")
               ELSE [s EXCEPT !.expected_header_len = h,
                              !.expected_payload = n,
                              !.events = Append(@, Ev("frame", "HMSG", parts[2], <<>>, Unwrap(n), Unwrap(h)))]

\* OnHmsgLine that forgets the header length.
OnHmsgLineAsMsg(s, line) ==
    LET parts == SplitWhitespace(line)
    IN IF Len(parts) < 5 THEN ReturnErr(s, "Bad HMSG header")
       ELSE LET h == ParseUsize(parts[4])
                n == ParseUsize(parts[5])
            IN IF ~IsSome(h) THEN ReturnErr(s, "Invalid hdr_len in HMSG")
               ELSE IF ~IsSome(n) THEN ReturnErr(s, "Invalid total_len in HMSG")
               ELSE [s EXCEPT !.current_subject = Some(parts[2]),
                              !.expected_header_len = None,
                              !.expected_payload = n,
                              !.events = Append(@, Ev("frame", "HMSG", parts[2], <<>>, Unwrap(n), Unwrap(h)))]

OnHmsgLine(s, line) ==
    LET parts == SplitWhitespace(line)
    IN IF Len(parts) < 5 THEN ReturnErr(s, "Bad HMSG header")
       ELSE LET h == ParseUsize(parts[4])
                n == ParseUsize(parts[5])
            IN IF ~IsSome(h) THEN ReturnErr(s, "Invalid hdr_len in HMSG")
               ELSE IF ~IsSome(n) THEN ReturnErr(s, "Invalid total_len in HMSG")
               ELSE [s EXCEPT !.current_subject = Some(parts[2]),
                              !.expected_header_len = h,
                              !.expected_payload = n,
                              !.events = Append(@, Ev("frame", "HMSG", parts[2], <<>>, Unwrap(n), Unwrap(h)))]

\* AnswerPing that drops a failed send.
AnswerPingDropsFailure(t, fail) ==
    IF fail = 1 THEN t
    ELSE [t EXCEPT !.events = Append(@, SendEv("PONG"))]

\* AnswerPing that sends nothing.
AnswerPingSilently(t, fail) == t

\* ws.send(Message::Text("PONG\r\n".to_string())).await?; continue;
AnswerPing(t, fail) ==
    IF fail = 1 THEN ReturnErr(t, "send failed")
    ELSE [t EXCEPT !.events = Append(@, SendEv("PONG"))]

\* let (line, rest) = partial.split_once("\r\n") ... // Unknown line: ignore
OnLine(s, fail) ==
    LET at == FindCRLF(s.partial)
        line == Take(s.partial, at - 1)
        t == [s EXCEPT !.partial = Drop(s.partial, at + 1)]
    IN CASE line = <<>> -> t
         [] StartsWith(line, <<"P", "I", "N", "G">>) -> AnswerPing(t, fail)
         [] StartsWith(line, <<"P", "O", "N", "G">>) -> t
         [] StartsWith(line, <<"-", "E", "R", "R">>) -> ReturnErr(t, "server error")
         [] StartsWith(line, <<"I", "N", "F", "O", "SP">>) ->
                IF ~t.connected THEN Handshake(t, fail) ELSE t
         [] StartsWith(line, <<"M", "S", "G", "SP">>) -> OnMsgLine(t, line)
         [] StartsWith(line, <<"H", "M", "S", "G", "SP">>) -> OnHmsgLine(t, line)
         [] OTHER -> t

\* The commands the next step on the buffer sends (each send can fail).
SendsOfStep(s) ==
    IF IsSome(s.expected_payload) THEN <<>>
    ELSE LET line == Take(s.partial, FindCRLF(s.partial) - 1)
         IN CASE StartsWith(line, <<"P", "I", "N", "G">>) -> <<"PONG">>
              [] StartsWith(line, <<"I", "N", "F", "O", "SP">>) /\ ~s.connected -> HandshakeCmds
              [] OTHER -> <<>>

\* One iteration of the loop that does not read: requires ~NeedsRead(s).
Process(s, fail) ==
    IF IsSome(s.expected_payload) THEN TakePayload(s) ELSE OnLine(s, fail)

\* run_once on the whole stream w delivered as one Text frame, then a Close.
RECURSIVE RunToEnd(_)
RunToEnd(s) ==
    IF s.ret # "run" THEN s
    ELSE IF NeedsRead(s) THEN OnFrame(s, Frame("Close", <<>>), TRUE)
    ELSE RunToEnd(Process(s, 0))

WholeRun(w) == RunToEnd(OnFrame(NewSession, Frame("Text", w), TRUE))

\* The engine invocations a run of the Session handed to tokio::spawn.
SpawnCount(evs) == Len(SelectSeq(evs, LAMBDA e : e.ev = "spawn"))

(***************************************************************************)
(* The broker byte streams a connection may carry.                         *)
(***************************************************************************)
INFO_LINE == <<"I", "N", "F", "O", "SP", "{", "}">> \o CRLF
PING_LINE == <<"P", "I", "N", "G">> \o CRLF
MsgLine(subject, len) == <<"M", "S", "G", "SP">> \o subject \o <<"SP", "1", "SP">> \o len \o CRLF
HmsgLine(subject, hlen, len) ==
    <<"H", "M", "S", "G", "SP">> \o subject \o <<"SP", "2", "SP">> \o hlen \o <<"SP">> \o len \o CRLF

\* INFO, INFO again, PING
StreamHandshake == INFO_LINE \o INFO_LINE \o PING_LINE
\* MSG a 1 3 / abc, then a PING
StreamMsg == MsgLine(<<"a">>, <<"3">>) \o <<"a", "b", "c">> \o CRLF \o PING_LINE
\* HMSG s 2 4 6 / four header bytes and the body "hi"
StreamHmsg == HmsgLine(<<"s">>, <<"4">>, <<"6">>) \o <<"N", "CR", "LF", "LF", "h", "i">> \o CRLF
\* HMSG s 2 5 3 / abc: header-len is greater than total-len
StreamHmsgLong == HmsgLine(<<"s">>, <<"5">>, <<"3">>) \o <<"a", "b", "c">> \o CRLF
\* MSG a 1 2 / the two-byte character U+00E9
StreamUtf8 == MsgLine(<<"a">>, <<"2">>) \o <<"xC3", "xA9">> \o CRLF
\* MSG a 1 1 / U+00E9: the declared length ends inside the character
StreamUtf8Short == MsgLine(<<"a">>, <<"1">>) \o <<"xC3", "xA9">> \o CRLF
\* -ERR x
StreamErr == <<"-", "E", "R", "R", "SP", "x">> \o CRLF
\* MSG a 1 (three tokens)
StreamBadMsg == <<"M", "S", "G", "SP", "a", "SP", "1">> \o CRLF
\* MSG a 1 x
StreamBadLen == MsgLine(<<"a">>, <<"x">>)
\* HMSG s 2 4 (four tokens)
StreamBadHmsg == <<"H", "M", "S", "G", "SP", "s", "SP", "2", "SP", "4">> \o CRLF
\* HMSG s 2 x 6
StreamBadHdrLen == HmsgLine(<<"s">>, <<"x">>, <<"6">>)
\* HMSG s 2 4 x
StreamBadTotalLen == HmsgLine(<<"s">>, <<"4">>, <<"x">>)

\* PONG, PING, PING
PONG_LINE == <<"P", "O", "N", "G">> \o CRLF
StreamPong == PONG_LINE \o PING_LINE \o PING_LINE
\* MSG a 1 r 3 / abc: a MSG line with a reply subject
StreamMsgReply ==
    <<"M", "S", "G", "SP", "a", "SP", "1", "SP", "r", "SP", "3">> \o CRLF
        \o <<"a", "b", "c">> \o CRLF
\* HMSG s 2 r 4 6 / four header bytes and the body "hi": an HMSG line with a reply subject
StreamHmsgReply ==
    <<"H", "M", "S", "G", "SP", "s", "SP", "2", "SP", "r", "SP", "4", "SP", "6">> \o CRLF
        \o <<"N", "CR", "LF", "LF", "h", "i">> \o CRLF
\* NATS/1.0 CRLF CRLF hello CRLF: a header block of 12 bytes and the body
HEADERS_HELLO ==
    <<"N", "A", "T", "S", "/", "1", ".", "0">> \o CRLF \o CRLF
        \o <<"h", "e", "l", "l", "o">> \o CRLF
\* HMSG s 2 10 15 / NATS/1.0 CRLF CRLF hello
StreamHmsgExample == HmsgLine(<<"s">>, <<"1", "0">>, <<"1", "5">>) \o HEADERS_HELLO
\* HMSG s 2 12 17 / NATS/1.0 CRLF CRLF hello
StreamHmsgHello == HmsgLine(<<"s">>, <<"1", "2">>, <<"1", "7">>) \o HEADERS_HELLO

IMAGE_BODY == <<"{", QUOTE, "i", "m", "a", "g", "e", QUOTE, ":", QUOTE, "Q", "m", QUOTE, "}">>
ADVANCED_NEW_COIN_CREATED ==
    <<"a", "d", "v", "a", "n", "c", "e", "d", "N", "e", "w", "C", "o", "i", "n",
      "C", "r", "e", "a", "t", "e", "d">>
\* MSG coinImageUpdated.x 1 14 / {"image":"Qm"}
StreamImage ==
    MsgLine(COIN_IMAGE_UPDATED \o <<".", "x">>, <<"1", "4">>) \o IMAGE_BODY \o CRLF
\* MSG advancedNewCoinCreated 1 14 / {"image":"Qm"}
StreamOtherSubject == MsgLine(ADVANCED_NEW_COIN_CREATED, <<"1", "4">>) \o IMAGE_BODY \o CRLF
\* MSG coinImageUpdated 1 2 / {}
StreamNoImage == MsgLine(COIN_IMAGE_UPDATED, <<"2">>) \o <<"{", "}">> \o CRLF

Streams ==
    {StreamHandshake, StreamMsg, StreamHmsg, StreamHmsgLong, StreamUtf8, StreamUtf8Short,
     StreamErr, StreamBadMsg, StreamBadLen, StreamBadHmsg, StreamBadHdrLen, StreamBadTotalLen,
     StreamPong, StreamMsgReply, StreamHmsgReply, StreamHmsgExample, StreamHmsgHello}

\* The streams of the runs in which the Session hands Messages to the engine.
AppStreams == {StreamImage, StreamOtherSubject, StreamNoImage, StreamErr}

\* Failed Sessions after which the model stops constructing new ones.
MaxReconnects == 7
\* WebSocket Ping frames the peer sends on one connection.
MaxPings == 1
\* Engine invocations spawned in one run of the process.
MaxSpawned == 1

(***************************************************************************)
(* main(): the Supervisor (smart_fetcher.rs:841-883).                      *)
(***************************************************************************)
\* NextBackoff without the cap.
NextBackoffUncapped(b) == b * 2

\* NextBackoff that starts over after the cap.
NextBackoffStartsOver(b) == IF b >= 30 THEN 1 ELSE Min(b * 2, 30)

\* backoff = std::cmp::min(backoff * 2, 30)
NextBackoff(b) == Min(b * 2, 30)

Sess ==
    [partial |-> partial, expected_payload |-> expected_payload,
     expected_header_len |-> expected_header_len, current_subject |-> current_subject,
     connected |-> connected, events |-> events, ret |-> "run"]

\* run_once's locals after a loop iteration; a return or a panic leaves the loop.
SetSess(s) ==
    /\ partial' = s.partial
    /\ expected_payload' = s.expected_payload
    /\ expected_header_len' = s.expected_header_len
    /\ current_subject' = s.current_subject
    /\ connected' = s.connected
    /\ events' = s.events
    /\ pc' = CASE s.ret = "run" -> "running"
               [] s.ret = "err" -> "failed"
               [] OTHER -> "panicked"

\* config.max_bytes, scaled down, at most.
MaxBytes == 2

\* The numbers of struct SmartIpfsConfig: the timeouts and the threshold in
\* clock units, max_bytes in the units of MaxBytes.
SmartIpfsConfig(local_timeout_ms, public_timeout_ms, max_bytes, fallback_threshold_ms) ==
    [local_timeout_ms |-> local_timeout_ms, public_timeout_ms |-> public_timeout_ms,
     max_bytes |-> max_bytes, fallback_threshold_ms |-> fallback_threshold_ms]

\* SmartIpfsConfig::from_env() with no SMART_IPFS_* variable set: 5000, 30000
\* and 200 ms, in units of 200 ms, and the default max_bytes.
SmartIpfsDefault == SmartIpfsConfig(25, 150, MaxBytes, 1)

IdleFetch ==
    /\ epc = "idle"
    /\ public_gateways = 0
    /\ tasks = <<>>
    /\ local_consumed = FALSE
    /\ remaining_tasks = <<>>
    /\ failed_gateways = 0
    /\ records = <<>>
    /\ total_start = 0
    /\ fallback_start = 0

ProgramInit ==
    /\ pc = "connecting"
    /\ backoff = 1
    /\ reconnects = <<>>
    /\ sleeps = <<>>
    /\ wire = <<>>
    /\ pos = 0
    /\ pings = 0
    /\ io = [op |-> "none", what |-> ""]
    /\ partial = <<>>
    /\ expected_payload = None
    /\ expected_header_len = None
    /\ current_subject = None
    /\ connected = FALSE
    /\ events = <<>>
    /\ IdleFetch
    /\ spawned = 0
    /\ now = 0
    /\ connect_options = None
    /\ extracted = None

\* env_bool("SMART_IPFS_ENABLED", true) with the variable unset.
\* An image address of the model: the form it was written in (0: none of the
\* four), the cid it was written for, and the address itself.
Address(form, cid, url) == [form |-> form, cid |-> cid, url |-> url]
NoAddress == Address(0, <<>>, <<>>)

\* env_bool("SMART_IPFS_ENABLED", true) with no variable of the environment set.
Init ==
    /\ ProgramInit
    /\ smart_ipfs_enabled = TRUE
    /\ vcfg = ValidateDefault
    /\ config = SmartIpfsDefault
    /\ env = EnvUnset
    /\ address = NoAddress

\* connect_async(req).await succeeded: run_once enters its loop.
Connect(w) ==
    /\ pc = "connecting"
    /\ Len(reconnects) < MaxReconnects
    /\ spawned + SpawnCount(WholeRun(w).events) <= MaxSpawned
    /\ wire' = w
    /\ pos' = 0
    /\ pings' = 0
    /\ io' = [op |-> "none", what |-> ""]
    /\ SetSess(NewSession)
    /\ UNCHANGED <<backoff, reconnects, sleeps, fetchVars, envVars, fnVars, spawned>>

\* connect_async(req).await? returned Err.
ConnectFail ==
    /\ pc = "connecting"
    /\ Len(reconnects) < MaxReconnects
    /\ wire' = <<>>
    /\ pos' = 0
    /\ pings' = 0
    /\ io' = [op |-> "connect", what |-> "Err"]
    /\ SetSess(ReturnErr(NewSession, "connect failed"))
    /\ UNCHANGED <<backoff, reconnects, sleeps, fetchVars, envVars, fnVars, spawned>>

\* ws.next() returns the next n bytes of the stream as a Text or a Binary frame.
Recv(n, kind) ==
    /\ pc = "running"
    /\ NeedsRead(Sess)
    /\ pos + n <= Len(wire)
    /\ LET data == SubSeq(wire, pos + 1, pos + n)
       IN /\ kind = "Text" => IsValidUtf8(data)
          /\ SetSess(OnFrame(Sess, Frame(kind, data), TRUE))
    /\ pos' = pos + n
    /\ io' = [op |-> "read", what |-> kind]
    /\ UNCHANGED <<wire, pings, backoff, reconnects, sleeps, fetchVars, envVars, fnVars, spawned>>

\* ws.next() returns a WebSocket Ping; the Pong reply is sent or fails to be.
RecvPing(sendOk) ==
    /\ pc = "running"
    /\ NeedsRead(Sess)
    /\ pings < MaxPings
    /\ pings' = pings + 1
    /\ io' = IF sendOk THEN [op |-> "read", what |-> "Ping"]
             ELSE [op |-> "send_failed", what |-> "ws_pong"]
    /\ SetSess(OnFrame(Sess, Frame("Ping", <<>>), sendOk))
    /\ UNCHANGED <<wire, pos, backoff, reconnects, sleeps, fetchVars, envVars, fnVars, spawned>>

\* ws.next() returns a WebSocket Pong, which the loop ignores.
RecvIgnored ==
    /\ pc = "running"
    /\ NeedsRead(Sess)
    /\ io' = [op |-> "read", what |-> "Pong"]
    /\ SetSess(OnFrame(Sess, Frame("Pong", <<>>), TRUE))
    /\ UNCHANGED <<wire, pos, pings, backoff, reconnects, sleeps, fetchVars, envVars, fnVars, spawned>>

\* ws.next() returns a Close frame, the end of the stream, or a read error.
RecvEnd(kind) ==
    /\ pc = "running"
    /\ NeedsRead(Sess)
    /\ io' = [op |-> "read", what |-> kind]
    /\ SetSess(OnFrame(Sess, Frame(kind, <<>>), TRUE))
    /\ UNCHANGED <<wire, pos, pings, backoff, reconnects, sleeps, fetchVars, envVars, fnVars, spawned>>

\* A loop iteration on the buffered bytes; the fail-th send of it fails (0: none).
Step(fail) ==
    /\ pc = "running"
    /\ ~NeedsRead(Sess)
    /\ fail <= Len(SendsOfStep(Sess))
    /\ io' = IF fail = 0 THEN io
             ELSE [op |-> "send_failed", what |-> SendsOfStep(Sess)[fail]]
    /\ SetSess(Process(Sess, fail))
    /\ spawned' = spawned + SpawnCount(Process(Sess, fail).events) - SpawnCount(events)
    /\ UNCHANGED <<wire, pos, pings, backoff, reconnects, sleeps, fetchVars, envVars, fnVars>>

\* Reconnect that also aborts the engine invocation in flight.
ReconnectAbortsFetch ==
    /\ pc = "failed"
    /\ reconnects' = Append(reconnects, backoff)
    /\ pc' = "sleeping"
    /\ epc' = IF epc = "idle" THEN epc ELSE "done"
    /\ remaining_tasks' = <<>>
    /\ UNCHANGED <<backoff, sleeps, sessionVars, public_gateways, tasks, local_consumed,
                   failed_gateways, records, total_start, fallback_start, envVars, fnVars,
                   spawned>>

\* Err(e) => print_line("reconnect", e, backoff_s); sleep(backoff) begins.
Reconnect ==
    /\ pc = "failed"
    /\ reconnects' = Append(reconnects, backoff)
    /\ pc' = "sleeping"
    /\ UNCHANGED <<backoff, sleeps, sessionVars, fetchVars, envVars, fnVars, spawned>>

\* The sleep ends; backoff = min(backoff * 2, 30); the loop constructs a Session.
Wake ==
    /\ pc = "sleeping"
    /\ sleeps' = Append(sleeps, backoff)
    /\ backoff' = NextBackoff(backoff)
    /\ pc' = "connecting"
    /\ UNCHANGED <<reconnects, sessionVars, fetchVars, envVars, fnVars, spawned>>

Next ==
    \/ \E w \in Streams : Connect(w)
    \/ ConnectFail
    \/ \E n \in 1..Len(wire), kind \in {"Text", "Binary"} : Recv(n, kind)
    \/ \E sendOk \in BOOLEAN : RecvPing(sendOk)
    \/ RecvIgnored
    \/ \E kind \in {"Close", "None", "Err"} : RecvEnd(kind)
    \/ \E fail \in 0..4 : Step(fail)
    \/ Reconnect
    \/ Wake

Spec == Init /\ [][Next]_vars

(***************************************************************************)
(* Properties of run_once and main().                                      *)
(***************************************************************************)
EventsOf(evs, kinds) == SelectSeq(evs, LAMBDA e : e.ev \in kinds)
IsPrefix(a, b) == Len(a) <= Len(b) /\ a = Take(b, Len(a))
Last(q) == q[Len(q)]

\* The Session is over: run_once returned Err or panicked.
Ended == pc \in {"failed", "sleeping", "panicked"} /\ events # <<>>

\* What the Session did apart from answering WebSocket Pings.
ProtocolEvents(evs) == SelectSeq(evs, LAMBDA e : ~(e.ev = "send" /\ e.arg = "ws_pong"))

\* The Session ended on the stream itself: every byte was delivered before the
\* peer closed, no read failed and no send failed.
EndedOnStream ==
    /\ Ended
    /\ wire # <<>>
    /\ Last(events).arg \notin {"transport error", "send failed"}
    /\ Last(events).arg = "websocket closed" => pos = Len(wire)

\* C2: fragmentation-independence. However the transport cut the stream into
\* Text and Binary frames, a Session that ended on the stream did exactly what
\* run_once does when the whole stream arrives in one frame.
C2_FragmentationIndependent ==
    EndedOnStream => ProtocolEvents(events) = WholeRun(wire).events

\* C3: every accepted MSG/HMSG control line whose payload was buffered gives
\* exactly one Message (one print_parsed_line and one try_spawn call, in that
\* order), with the line's subject and a body of payload-len - header-len bytes.
C3_OneMessagePerLine ==
    LET F == EventsOf(events, {"frame"})
        P == EventsOf(events, {"print_parsed_line"})
        D == EventsOf(events, {"try_spawn"})
        \* a payload still being awaited when the connection was lost, or about
        \* to be taken, has no Message yet
        awaited == IF IsSome(expected_payload) /\ pc # "panicked" THEN 1 ELSE 0
    IN /\ Len(P) = Len(D)
       /\ Len(D) = Len(F) - awaited
       /\ \A i \in 1..Len(D) :
            /\ D[i].subject = F[i].subject
            /\ Len(D[i].body) = F[i].len - F[i].hlen
            /\ P[i].subject = D[i].subject
            /\ P[i].body = D[i].body

\* The CONNECT, SUB and PING commands sent on this connection, in order.
HandshakeSent ==
    SelectSeq(events, LAMBDA e : e.ev = "send" /\ e.arg \in {HandshakeCmds[i] : i \in 1..4})

\* The next loop iteration handles a control line that begins with "INFO ".
AtInfoLine ==
    /\ pc = "running"
    /\ ~IsSome(expected_payload)
    /\ FindCRLF(partial) > 0
    /\ StartsWith(partial, <<"I", "N", "F", "O", "SP">>)

C4_Sent ==
    /\ IsPrefix(HandshakeSent, [i \in 1..4 |-> SendEv(HandshakeCmds[i])])
    /\ connected <=> Len(HandshakeSent) = 4
    /\ pc = "running" => Len(HandshakeSent) \in {0, 4}
    /\ Len(HandshakeSent) \in 1..3 => Last(events).arg = "send failed"

\* On one connection the handshake commands are sent only by the step on an
\* INFO line of a Session that is not connected.
C4_OnlyOnFirstInfo ==
    (pc = "running" /\ HandshakeSent' # HandshakeSent) => (AtInfoLine /\ ~connected)

\* An INFO line of a connected Session is consumed and nothing else changes.
C4_LaterInfoNoOp ==
    (AtInfoLine /\ connected) =>
        /\ partial' = Drop(partial, FindCRLF(partial) + 1)
        /\ UNCHANGED <<events, connected, expected_payload, expected_header_len,
                       current_subject, pc>>

\* C4: CONNECT, SUB advancedNewCoinCreated 4, SUB coinImageUpdated.> 2, PING are
\* sent in that order, once per connection, by the step on the first INFO line
\* (a failed send ends the Session after the commands before it); a later INFO
\* line sends nothing and changes no session state; no such command is sent at
\* any other time.
C4_HandshakeOnce ==
    /\ []C4_Sent
    /\ [][C4_OnlyOnFirstInfo]_vars
    /\ [][C4_LaterInfoNoOp]_vars

\* C4 witness: connected, and the second INFO line and the PING after it handled.
C4_Witness ==
    /\ wire = StreamHandshake
    /\ connected
    /\ pc = "running"
    /\ partial = <<>>
    /\ Last(events) = SendEv("PONG")

\* The control line the next loop iteration handles (line mode, CRLF buffered).
AtLine == pc = "running" /\ ~IsSome(expected_payload) /\ FindCRLF(partial) > 0
NextLine == Take(partial, FindCRLF(partial) - 1)

IsMsgHeader(line) == StartsWith(line, <<"M", "S", "G", "SP">>)
IsHmsgHeader(line) == StartsWith(line, <<"H", "M", "S", "G", "SP">>)

\* A -ERR line, or a MSG/HMSG header with too few tokens or with a length
\* field that does not parse.
FatalLine(line) ==
    LET parts == SplitWhitespace(line)
    IN \/ parts # <<>> /\ parts[1] = <<"-", "E", "R", "R">>
       \/ /\ IsMsgHeader(line)
          /\ Len(parts) < 4 \/ ~IsSome(ParseUsize(parts[4]))
       \/ /\ IsHmsgHeader(line)
          /\ \/ Len(parts) < 5
             \/ ~IsSome(ParseUsize(parts[4]))
             \/ ~IsSome(ParseUsize(parts[5]))

\* The transport's latest result is one of the fatal ones.
FatalIo ==
    \/ io.op = "read" /\ io.what \in {"Close", "None", "Err"}
    \/ io.op = "send_failed" /\ io.what \in {HandshakeCmds[i] : i \in 1..4}
    \/ io.op = "connect"

C5_FatalIoReturnsErr ==
    FatalIo => /\ pc \in {"failed", "sleeping", "connecting"}
               /\ events # <<>>
               /\ Last(events).ev = "return_err"

C5_FatalLineReturnsErr ==
    (AtLine /\ FatalLine(NextLine)) => (pc' = "failed" /\ Last(events').ev = "return_err")

\* After an Err the Supervisor prints the reconnect record, sleeps, and then
\* constructs a Session with fresh locals.
C5_Supervisor ==
    /\ pc = "failed" => pc' = "sleeping" /\ reconnects' = Append(reconnects, backoff)
    /\ pc = "sleeping" => pc' = "connecting" /\ sleeps' = Append(sleeps, backoff)
    /\ pc = "connecting" =>
          /\ pc' \in {"running", "failed"}
          /\ partial' = <<>> /\ ~connected' /\ pos' = 0
          /\ expected_payload' = None /\ current_subject' = None

C5_SupervisorGoesOn ==
    /\ pc = "failed" => ENABLED Reconnect
    /\ pc = "sleeping" => ENABLED Wake
    /\ (pc = "connecting" /\ Len(reconnects) < MaxReconnects) => ENABLED ConnectFail

\* C5: a transport read error, a Close frame or the end of the stream, a -ERR
\* line, a malformed MSG/HMSG header line and a failed handshake send each make
\* run_once return Err, in line mode and while a payload is pending; the
\* Supervisor then logs the reconnect, sleeps and starts a new Session.
C5_FatalConditions ==
    /\ [](C5_FatalIoReturnsErr /\ C5_SupervisorGoesOn)
    /\ [][C5_FatalLineReturnsErr]_vars
    /\ [][C5_Supervisor]_vars

\* C5 witness: the peer closed while a payload was pending; the Supervisor has
\* logged the reconnect and is asleep.
C5_Witness ==
    /\ pc = "sleeping"
    /\ IsSome(expected_payload)
    /\ io = [op |-> "read", what |-> "Close"]
    /\ Last(events).arg = "websocket closed"
    /\ Len(reconnects) = Len(sleeps) + 1

\* C6: no broker input stops the process: a Session ends only by returning to
\* the Supervisor.
C6_NeverStops == pc # "panicked"

RECURSIVE Pow2(_)
Pow2(i) == IF i = 0 THEN 1 ELSE 2 * Pow2(i - 1)

\* C7: the i-th failure of the streak (i = 0, 1, ...) logs backoff_s =
\* min(2^i, 30) and sleeps that many seconds before the next Session is
\* constructed; backoff is always one of 1, 2, 4, 8, 16, 30.
C7_BackoffSequence ==
    /\ backoff \in {1, 2, 4, 8, 16, 30}
    /\ \A i \in 1..Len(reconnects) : reconnects[i] = Min(Pow2(i - 1), 30)
    /\ \A i \in 1..Len(sleeps) : sleeps[i] = reconnects[i]
    /\ Len(sleeps) = Len(reconnects) - (IF pc = "sleeping" THEN 1 ELSE 0)
    /\ backoff = Min(Pow2(Len(sleeps)), 30)

\* C7 witness: a streak long enough to sleep 30 seconds twice.
C7_Witness ==
    /\ Len(sleeps) >= 7
    /\ sleeps[5] = 16
    /\ sleeps[6] = 30
    /\ sleeps[7] = 30

(***************************************************************************)
(* fetch_from_gateway (smart_fetcher.rs:319-363), run as a spawned task.   *)
(* A task is [st, bytes, err]: st is "unspawned", "request" (send().await  *)
(* pending), "stream" (reading the body), or how the task ended: "ok",     *)
(* "err" (with err the error's kind) or "aborted" (a JoinError).           *)
(***************************************************************************)
\* Public gateways configured (config.public_gateways.len()) at most.
MaxPublic == 2
\* The longest chunk the body stream yields.
MaxChunk == 2

LocalTask == 0

Task(st, bytes, err) == [st |-> st, bytes |-> bytes, err |-> err]
Unspawned == Task("unspawned", 0, "")
Spawned == Task("request", 0, "")

\* JoinHandle::is_finished
IsFinished(t) == tasks[t].st \in {"ok", "err", "aborted"}
Running(t) == tasks[t].st \in {"request", "stream"}

\* AfterChunk that fails the fetch when the cap is reached.
AfterChunkCapFails(bytes, n) ==
    IF bytes + n >= config.max_bytes THEN Task("err", 0, "too_large")
    ELSE Task("stream", bytes + n, "")

\* bytes += chunk.len() as u64; if bytes >= max_bytes { break; } ... Ok((bytes, elapsed_ms))
AfterChunk(bytes, n) ==
    IF bytes + n >= config.max_bytes THEN Task("ok", bytes + n, "") ELSE Task("stream", bytes + n, "")

\* client.get(url).send().await and the status check: the body stream opens,
\* or the task returns Err (client_build, request_failed or http_status).
TaskRespond(t, outcome) ==
    /\ epc # "idle"
    /\ tasks[t].st = "request"
    /\ tasks' = [tasks EXCEPT ![t] = IF outcome = "stream" THEN Task("stream", 0, "")
                                     ELSE Task("err", 0, outcome)]
    /\ UNCHANGED <<epc, public_gateways, local_consumed, remaining_tasks, failed_gateways,
                   records, mainVars, sessionVars, envVars, fnVars, spawned,
                   total_start, fallback_start>>

\* stream.next().await yields Some(Ok(chunk)) with n bytes.
TaskChunk(t, n) ==
    /\ epc # "idle"
    /\ tasks[t].st = "stream"
    /\ tasks' = [tasks EXCEPT ![t] = AfterChunk(tasks[t].bytes, n)]
    /\ UNCHANGED <<epc, public_gateways, local_consumed, remaining_tasks, failed_gateways,
                   records, mainVars, sessionVars, envVars, fnVars, spawned,
                   total_start, fallback_start>>

\* stream.next().await yields None (Ok) or Some(Err(e)) (stream_error).
TaskStreamEnd(t, ok) ==
    /\ epc # "idle"
    /\ tasks[t].st = "stream"
    /\ tasks' = [tasks EXCEPT ![t] = IF ok THEN Task("ok", tasks[t].bytes, "")
                                     ELSE Task("err", 0, "stream_error")]
    /\ UNCHANGED <<epc, public_gateways, local_consumed, remaining_tasks, failed_gateways,
                   records, mainVars, sessionVars, envVars, fnVars, spawned,
                   total_start, fallback_start>>

\* The task panics or is aborted by the runtime: its JoinHandle yields Err(JoinError).
TaskAbort(t) ==
    /\ epc # "idle"
    /\ Running(t)
    /\ tasks' = [tasks EXCEPT ![t] = Task("aborted", 0, "")]
    /\ UNCHANGED <<epc, public_gateways, local_consumed, remaining_tasks, failed_gateways,
                   records, mainVars, sessionVars, envVars, fnVars, spawned,
                   total_start, fallback_start>>

(***************************************************************************)
(* smart_ipfs_fetch_and_log (smart_fetcher.rs:365-591).                    *)
(***************************************************************************)
\* One print_line record of the engine: the event, the strategy of a
\* smart_ipfs_fetch_success, the task the record is about (-1: none) and
\* failed_gateways_count (-1: the record has no such field).
Rec(event, strategy, task, failed_count) ==
    [event |-> event, strategy |-> strategy, task |-> task, failed_count |-> failed_count]

\* print_line("smart_ipfs_fetch_start"); let mut local_task = tokio::spawn(..)
FetchStart(n) ==
    /\ epc = "idle"
    /\ public_gateways' = n
    /\ tasks' = [t \in 0..n |-> IF t = LocalTask THEN Spawned ELSE Unspawned]
    /\ records' = <<Rec("smart_ipfs_fetch_start", "", -1, -1)>>
    /\ epc' = "select"
    /\ total_start' = now
    /\ UNCHANGED <<local_consumed, remaining_tasks, failed_gateways, mainVars, sessionVars,
                   envVars, fnVars, spawned, fallback_start>>

\* Phase1LocalArm without the `return` after the local_only record.
Phase1LocalArmFallsThrough(result) ==
    CASE result.st = "ok" ->
            [records |-> <<Rec("smart_ipfs_fetch_success", "local_only", LocalTask, -1)>>,
             epc |-> "fallback"]
      [] result.st = "err" ->
            [records |-> <<Rec("smart_ipfs_local_failed", "", LocalTask, -1)>>, epc |-> "fallback"]
      [] OTHER -> [records |-> <<>>, epc |-> "fallback"]

\* The select! arm `local_result = &mut local_task`: what it prints and where
\* the engine goes, by the task's result.
Phase1LocalArm(result) ==
    CASE result.st = "ok" ->
            [records |-> <<Rec("smart_ipfs_fetch_success", "local_only", LocalTask, -1)>>,
             epc |-> "done"]
      [] result.st = "err" ->
            [records |-> <<Rec("smart_ipfs_local_failed", "", LocalTask, -1)>>, epc |-> "fallback"]
      [] OTHER -> [records |-> <<>>, epc |-> "fallback"]

\* select! polls &mut local_task and finds it complete.
Phase1Local ==
    /\ epc = "select"
    /\ IsFinished(LocalTask)
    /\ local_consumed' = TRUE
    /\ records' = records \o Phase1LocalArm(tasks[LocalTask]).records
    /\ epc' = Phase1LocalArm(tasks[LocalTask]).epc
    /\ UNCHANGED <<public_gateways, tasks, remaining_tasks, failed_gateways,
                   mainVars, sessionVars, envVars, fnVars, spawned,
                   total_start, fallback_start>>

\* select! finds threshold_future ready (and picks it, whatever local_task is).
Phase1Threshold ==
    /\ epc = "select"
    /\ records' = Append(records, Rec("smart_ipfs_local_threshold_exceeded", "", LocalTask, -1))
    /\ epc' = "fallback"
    /\ UNCHANGED <<public_gateways, tasks, local_consumed, remaining_tasks, failed_gateways,
                   mainVars, sessionVars, envVars, fnVars, spawned,
                   total_start, fallback_start>>

\* Phase2Tasks that pushes the local handle whatever its state.
Phase2TasksWithLocal == <<LocalTask>> \o [i \in 1..public_gateways |-> i]

\* if !local_task.is_finished() { tasks.push(local_task); }
\* for gateway in &config.public_gateways { ... tasks.push(task); }
Phase2Tasks ==
    (IF ~IsFinished(LocalTask) THEN <<LocalTask>> ELSE <<>>) \o [i \in 1..public_gateways |-> i]

\* print_line("smart_ipfs_fallback_start"), the task Vec, the public spawns.
Phase2Start ==
    /\ epc = "fallback"
    /\ records' = Append(records, Rec("smart_ipfs_fallback_start", "", -1, -1))
    /\ remaining_tasks' = Phase2Tasks
    /\ tasks' = [t \in 0..public_gateways |-> IF t = LocalTask THEN tasks[t] ELSE Spawned]
    /\ epc' = "race"
    /\ fallback_start' = now
    /\ UNCHANGED <<public_gateways, local_consumed, failed_gateways, mainVars, sessionVars,
                   envVars, fnVars, spawned, total_start>>

\* RaceAllFailed that calls select_all on the empty Vec, which panics.
RaceAllFailedSelects ==
    /\ epc = "race"
    /\ remaining_tasks = <<>>
    /\ epc' = "panicked"
    /\ UNCHANGED <<public_gateways, tasks, local_consumed, remaining_tasks, failed_gateways,
                   records, mainVars, sessionVars, envVars, fnVars, spawned,
                   total_start, fallback_start>>

\* RaceAllFailed that returns without the terminal record.
RaceAllFailedSilently ==
    /\ epc = "race"
    /\ remaining_tasks = <<>>
    /\ epc' = "done"
    /\ UNCHANGED <<public_gateways, tasks, local_consumed, remaining_tasks, failed_gateways,
                   records, mainVars, sessionVars, envVars, fnVars, spawned,
                   total_start, fallback_start>>

\* if remaining_tasks.is_empty() { print_line("smart_ipfs_fetch_failed"); return; }
RaceAllFailed ==
    /\ epc = "race"
    /\ remaining_tasks = <<>>
    /\ records' = Append(records, Rec("smart_ipfs_fetch_failed", "", -1, failed_gateways))
    /\ epc' = "done"
    /\ UNCHANGED <<public_gateways, tasks, local_consumed, remaining_tasks, failed_gateways,
                   mainVars, sessionVars, envVars, fnVars, spawned,
                   total_start, fallback_start>>

\* futures_util::future::select_all: the first ready future in Vec order.
FirstReady(handles) ==
    LET ready == {i \in 1..Len(handles) : IsFinished(handles[i])}
    IN IF ready = {} THEN 0 ELSE CHOOSE i \in ready : \A j \in ready : i <= j

\* select_all removes the ready future with Vec::swap_remove.
SwapRemove(q, i) ==
    [j \in 1..(Len(q) - 1) |-> IF j = i THEN q[Len(q)] ELSE q[j]]

\* Strategy that names every Phase 2 winner a public one.
StrategyAlwaysPublic(t) == "fallback_to_public"

\* let strategy = if gateway_type == "local" { .. } else { .. }
Strategy(t) == IF t = LocalTask THEN "local_after_threshold" ELSE "fallback_to_public"

\* The handles the engine still holds after a success: `return` drops the Vec.
\* Dropping a tokio JoinHandle detaches its task; nothing aborts it.
HandlesAfterSuccess(rest) == <<>>

\* RaceArm that prints the terminal record before the per-gateway one.
RaceArmTerminalFirst(t, rest) ==
    CASE tasks[t].st = "ok" ->
            [records |-> <<Rec("smart_ipfs_fetch_success", Strategy(t), t, failed_gateways),
                           Rec(IF t = LocalTask THEN "smart_ipfs_local_late_success"
                               ELSE "smart_ipfs_public_success", "", t, -1)>>,
             failed |-> failed_gateways, remaining |-> HandlesAfterSuccess(rest), epc |-> "done"]
      [] tasks[t].st = "err" ->
            [records |-> <<Rec(IF t = LocalTask THEN "smart_ipfs_local_failed"
                               ELSE "smart_ipfs_public_failed", "", t, -1)>>,
             failed |-> failed_gateways + 1, remaining |-> rest, epc |-> "race"]
      [] OTHER ->
            [records |-> <<Rec("smart_ipfs_task_error", "", -1, -1)>>,
             failed |-> failed_gateways, remaining |-> rest, epc |-> "race"]

\* RaceArm that gives up at the first failure.
RaceArmFailFast(t, rest) ==
    CASE tasks[t].st = "ok" ->
            [records |-> <<Rec(IF t = LocalTask THEN "smart_ipfs_local_late_success"
                               ELSE "smart_ipfs_public_success", "", t, -1),
                           Rec("smart_ipfs_fetch_success", Strategy(t), t, failed_gateways)>>,
             failed |-> failed_gateways, remaining |-> HandlesAfterSuccess(rest), epc |-> "done"]
      [] tasks[t].st = "err" ->
            [records |-> <<Rec(IF t = LocalTask THEN "smart_ipfs_local_failed"
                               ELSE "smart_ipfs_public_failed", "", t, -1),
                           Rec("smart_ipfs_fetch_failed", "", -1, failed_gateways + 1)>>,
             failed |-> failed_gateways + 1, remaining |-> <<>>, epc |-> "done"]
      [] OTHER ->
            [records |-> <<Rec("smart_ipfs_task_error", "", -1, -1)>>,
             failed |-> failed_gateways, remaining |-> rest, epc |-> "race"]

\* RaceArm that counts an aborted task among the failed gateways.
RaceArmCountsAborts(t, rest) ==
    CASE tasks[t].st = "ok" ->
            [records |-> <<Rec(IF t = LocalTask THEN "smart_ipfs_local_late_success"
                               ELSE "smart_ipfs_public_success", "", t, -1),
                           Rec("smart_ipfs_fetch_success", Strategy(t), t, failed_gateways)>>,
             failed |-> failed_gateways, remaining |-> HandlesAfterSuccess(rest), epc |-> "done"]
      [] tasks[t].st = "err" ->
            [records |-> <<Rec(IF t = LocalTask THEN "smart_ipfs_local_failed"
                               ELSE "smart_ipfs_public_failed", "", t, -1)>>,
             failed |-> failed_gateways + 1, remaining |-> rest, epc |-> "race"]
      [] OTHER ->
            [records |-> <<Rec("smart_ipfs_task_error", "", -1, -1)>>,
             failed |-> failed_gateways + 1, remaining |-> rest, epc |-> "race"]

\* match result { Ok((.., Ok(..))) => .., Ok((.., Err(err))) => .., Err(join_err) => .. }
RaceArm(t, rest) ==
    CASE tasks[t].st = "ok" ->
            [records |-> <<Rec(IF t = LocalTask THEN "smart_ipfs_local_late_success"
                               ELSE "smart_ipfs_public_success", "", t, -1),
                           Rec("smart_ipfs_fetch_success", Strategy(t), t, failed_gateways)>>,
             failed |-> failed_gateways, remaining |-> HandlesAfterSuccess(rest), epc |-> "done"]
      [] tasks[t].st = "err" ->
            [records |-> <<Rec(IF t = LocalTask THEN "smart_ipfs_local_failed"
                               ELSE "smart_ipfs_public_failed", "", t, -1)>>,
             failed |-> failed_gateways + 1, remaining |-> rest, epc |-> "race"]
      [] OTHER ->
            [records |-> <<Rec("smart_ipfs_task_error", "", -1, -1)>>,
             failed |-> failed_gateways, remaining |-> rest, epc |-> "race"]

\* select_all(remaining_tasks).await returns a completed task.
RaceObserve ==
    /\ epc = "race"
    /\ FirstReady(remaining_tasks) # 0
    /\ LET i == FirstReady(remaining_tasks)
           arm == RaceArm(remaining_tasks[i], SwapRemove(remaining_tasks, i))
       IN /\ records' = records \o arm.records
          /\ failed_gateways' = arm.failed
          /\ remaining_tasks' = arm.remaining
          /\ epc' = arm.epc
    /\ UNCHANGED <<public_gateways, tasks, local_consumed, mainVars, sessionVars, envVars, fnVars, spawned,
                   total_start, fallback_start>>

FetchNext ==
    \/ \E n \in 0..MaxPublic : FetchStart(n)
    \/ Phase1Local
    \/ Phase1Threshold
    \/ Phase2Start
    \/ RaceObserve
    \/ RaceAllFailed
    \/ \E t \in DOMAIN tasks, o \in {"stream", "client_build", "request_failed", "http_status"} :
            TaskRespond(t, o)
    \/ \E t \in DOMAIN tasks, n \in 1..MaxChunk : TaskChunk(t, n)
    \/ \E t \in DOMAIN tasks, ok \in BOOLEAN : TaskStreamEnd(t, ok)
    \/ \E t \in DOMAIN tasks : TaskAbort(t)

FetchSpec == Init /\ [][FetchNext]_vars

(***************************************************************************)
(* The engine on a discrete clock.  reqwest's Client::timeout (smart_       *)
(* fetcher.rs:325-327) runs from the start of the request to the end of    *)
(* the body, so a gateway task ends no later than timeout_ms after it was  *)
(* spawned; sleep(fallback_threshold_ms) (line 399) is ready no earlier    *)
(* than the threshold after total_start.  The engine and the tasks take no *)
(* time of their own: the clock advances only when the engine is waiting   *)
(* and no running task is at its deadline.                                 *)
(***************************************************************************)
\* The timeouts and the threshold configured, in clock units, at most.
MaxTimeout == 2
\* config.public_gateways.len() in the runs of the whole process.
AppGateways == {0, 1}
\* config.public_gateways.len() in the runs on the clock.
TimedGateways == {0, 2}

\* When the request of task t times out.
Deadline(t) ==
    IF t = LocalTask THEN total_start + config.local_timeout_ms
    ELSE fallback_start + config.public_timeout_ms

\* A future the engine awaits is ready, or the engine is not awaiting.
EngineReady ==
    \/ epc = "select" /\ IsFinished(LocalTask)
    \/ epc = "select" /\ now >= total_start + config.fallback_threshold_ms
    \/ epc = "fallback"
    \/ epc = "race" /\ remaining_tasks = <<>>
    \/ epc = "race" /\ FirstReady(remaining_tasks) # 0

\* One unit of time passes.
Tick ==
    /\ epc \notin {"idle", "done"}
    /\ ~EngineReady
    /\ \A t \in DOMAIN tasks : Running(t) => now < Deadline(t)
    /\ now' = now + 1
    /\ UNCHANGED <<mainVars, sessionVars, fetchVars, fnVars, spawned, smart_ipfs_enabled,
                   vcfg, config, env>>

\* _ = threshold_future => { .. }: sleep() has run its whole duration.
ThresholdElapsed ==
    /\ now >= total_start + config.fallback_threshold_ms
    /\ Phase1Threshold

TimedInit ==
    /\ ProgramInit
    /\ smart_ipfs_enabled = TRUE
    /\ vcfg = ValidateDefault
    /\ config \in {SmartIpfsConfig(l, p, MaxBytes, th) :
                       l \in 1..MaxTimeout, p \in 1..MaxTimeout, th \in 1..MaxTimeout}
    /\ env = EnvUnset
    /\ address = NoAddress

TimedNext ==
    \/ \E n \in TimedGateways : FetchStart(n)
    \/ Phase1Local
    \/ ThresholdElapsed
    \/ Phase2Start
    \/ RaceObserve
    \/ RaceAllFailed
    \/ \E t \in DOMAIN tasks, o \in {"stream", "request_failed"} : TaskRespond(t, o)
    \/ \E t \in DOMAIN tasks : TaskChunk(t, MaxChunk)
    \/ \E t \in DOMAIN tasks, ok \in BOOLEAN : TaskStreamEnd(t, ok)
    \/ \E t \in DOMAIN tasks : TaskAbort(t)
    \/ Tick

\* The runtime keeps polling the engine and the tasks, and time passes.
TimedFetchSpec == TimedInit /\ [][TimedNext]_vars /\ WF_vars(TimedNext)

(***************************************************************************)

(* fetch_from_gateway under every max_bytes from 0 up: the engine with the *)
(* local gateway and at most one public one.                               *)
(***************************************************************************)
GatewayInit ==
    /\ ProgramInit
    /\ smart_ipfs_enabled = TRUE
    /\ vcfg = ValidateDefault
    /\ config \in {SmartIpfsConfig(25, 150, m, 1) : m \in 0..MaxBytes}
    /\ env = EnvUnset
    /\ address = NoAddress

GatewayNext ==
    \/ \E n \in AppGateways : FetchStart(n)
    \/ Phase1Local
    \/ Phase1Threshold
    \/ Phase2Start
    \/ RaceObserve
    \/ RaceAllFailed
    \/ \E t \in DOMAIN tasks, o \in {"stream", "client_build", "request_failed", "http_status"} :
            TaskRespond(t, o)
    \/ \E t \in DOMAIN tasks, n \in 1..MaxChunk : TaskChunk(t, n)
    \/ \E t \in DOMAIN tasks, ok \in BOOLEAN : TaskStreamEnd(t, ok)
    \/ \E t \in DOMAIN tasks : TaskAbort(t)

GatewaySpec == GatewayInit /\ [][GatewayNext]_vars

(***************************************************************************)

(* The whole process: main() and run_once, and the engine invocation that  *)
(* try_spawn_smart_ipfs_fetch hands to tokio::spawn (smart_fetcher.rs:     *)
(* 627-629), which the runtime runs concurrently with them.  The engine    *)
(* variables follow the first invocation spawned.                          *)
(***************************************************************************)
\* Failed Sessions of a run of the whole process.
MaxAppReconnects == 2

AppInit ==
    /\ ProgramInit
    /\ smart_ipfs_enabled \in BOOLEAN
    /\ vcfg = ValidateDefault
    /\ config = SmartIpfsDefault
    /\ env = EnvUnset
    /\ address = NoAddress

\* The runtime polls the spawned future for the first time.
SpawnedFetchStart(n) ==
    /\ spawned >= 1
    /\ FetchStart(n)

\* The engine and its gateway tasks, once started.
EngineNext ==
    \/ Phase1Local
    \/ Phase1Threshold
    \/ Phase2Start
    \/ RaceObserve
    \/ RaceAllFailed
    \/ \E t \in DOMAIN tasks, o \in {"stream", "request_failed"} : TaskRespond(t, o)
    \/ \E t \in DOMAIN tasks, n \in 1..MaxChunk : TaskChunk(t, n)
    \/ \E t \in DOMAIN tasks, ok \in BOOLEAN : TaskStreamEnd(t, ok)
    \/ \E t \in DOMAIN tasks : TaskAbort(t)

\* main(), with the stream of a connection delivered whole or in two frames.
SupervisorNext ==
    \/ \E w \in AppStreams : Len(reconnects) < MaxAppReconnects /\ Connect(w)
    \/ Len(reconnects) < MaxAppReconnects /\ ConnectFail
    \/ \E n \in {Len(wire) \div 2, Len(wire) - pos}, kind \in {"Text", "Binary"} : Recv(n, kind)
    \/ \E kind \in {"Close", "None", "Err"} : RecvEnd(kind)
    \/ Step(0)
    \/ Reconnect
    \/ Wake

AppNext ==
    \/ SupervisorNext
    \/ \E n \in AppGateways : SpawnedFetchStart(n)
    \/ EngineNext

\* The runtime keeps polling a spawned future, and every gateway request ends
\* (by its response, the end of its stream, an error or its timeout).
AppSpec ==
    /\ AppInit
    /\ [][AppNext]_vars
    /\ WF_vars(\E n \in AppGateways : SpawnedFetchStart(n))
    /\ WF_vars(EngineNext)

(***************************************************************************)
(* build_connect_options and extract_cid_from_url called on their own: the *)
(* environment and the image address are drawn at the start.               *)
(***************************************************************************)
HTTPS_SCHEME == HTTPS \o <<":", "/", "/">>
IPFS_SCHEME == IPFS \o <<":", "/", "/">>
PATH == <<"/", "a", ".", "p", "n", "g">>

\* The cids and the gateway hosts of the addresses.
Cids == {<<"b", "a">>, <<"Q", "m">>}
Hosts == {<<"x", ".", "i", "o">>, <<"g", "w", ".", "i", "p", "f", "s", ".", "i", "o">>}

\* The four well-formed forms of an IPFS address of a cid:
\*   1  ipfs://<cid> and ipfs://<cid>/path
\*   2  https://<cid>.ipfs.<domain>/path
\*   3  https://<cid>.ipfs.dweb.link/path
\*   4  https://<host>/ipfs/<cid>/path
WellFormed ==
    UNION {
        {Address(1, c, IPFS_SCHEME \o c), Address(1, c, IPFS_SCHEME \o c \o PATH),
         Address(3, c, HTTPS_SCHEME \o c \o DOT_IPFS_DWEB_LINK \o PATH)}
        \cup {Address(2, c, HTTPS_SCHEME \o c \o DOT_IPFS_DOT \o h \o PATH) : h \in Hosts}
        \cup {Address(4, c, HTTPS_SCHEME \o h \o <<"/">> \o IPFS \o <<"/">> \o c \o PATH) : h \in Hosts}
        : c \in Cids}

\* Other inputs: a bare cid, an address without a cid, addresses whose cid
\* segment is empty, an empty and a blank string.
OtherInputs ==
    {Address(0, <<"Q", "m">>, <<"Q", "m">>),
     Address(0, <<>>, HTTPS_SCHEME \o <<"x", ".", "i", "o">> \o PATH),
     Address(0, <<>>, IPFS_SCHEME \o <<"/">>),
     Address(0, <<>>, HTTPS_SCHEME \o <<"x", ".", "i", "o", "/">> \o IPFS \o <<"/">>),
     Address(0, <<>>, <<>>),
     Address(0, <<>>, <<"SP">>)}

FnInit ==
    /\ ProgramInit
    /\ smart_ipfs_enabled = TRUE
    /\ vcfg = ValidateDefault
    /\ config = SmartIpfsDefault
    /\ env \in {[name \in EnvNames |-> IF name \in set THEN Some(EnvValue(name)) ELSE None] :
                   set \in SUBSET EnvNames}
    /\ address \in WellFormed \cup OtherInputs

\* let connect = format!("CONNECT {}\r\n", build_connect_options().to_string());
CallBuildConnectOptions ==
    /\ connect_options = None
    /\ connect_options' = Some(build_connect_options(env))
    /\ UNCHANGED <<mainVars, sessionVars, fetchVars, envVars, address, extracted, spawned>>

\* extract_cid_from_url(&image_s)
CallExtractCid ==
    /\ extracted = None
    /\ extracted' = Some(extract_cid_from_url(address.url))
    /\ UNCHANGED <<mainVars, sessionVars, fetchVars, envVars, address, connect_options, spawned>>

FnNext ==
    \/ CallBuildConnectOptions
    \/ CallExtractCid

FnSpec == FnInit /\ [][FnNext]_vars

(***************************************************************************)
PING == <<"P", "I", "N", "G">>
PONG == <<"P", "O", "N", "G">>
PongsSent(evs) == Len(SelectSeq(evs, LAMBDA e : e = SendEv("PONG")))
LineConsumed == partial' = Drop(partial, FindCRLF(partial) + 1)

\* The step on a PING line sends one PONG and nothing else, or its send fails
\* and run_once returns Err.
C15_PingAnswered ==
    (AtLine /\ NextLine = PING) =>
        /\ LineConsumed
        /\ \/ events' = Append(events, SendEv("PONG")) /\ pc' = "running"
           \/ /\ io' = [op |-> "send_failed", what |-> "PONG"]
              /\ pc' = "failed"
              /\ PongsSent(events') = PongsSent(events)

\* The step on a PONG line consumes the line and does nothing else.
C15_PongIgnored ==
    (AtLine /\ NextLine = PONG) =>
        /\ LineConsumed
        /\ UNCHANGED <<events, io, pc>>

\* A PONG is sent only by the step on a line that begins with PING, one a step.
C15_OnlyForPing ==
    (pc = "running" /\ PongsSent(events') # PongsSent(events)) =>
        /\ AtLine
        /\ StartsWith(NextLine, PING)
        /\ PongsSent(events') = PongsSent(events) + 1

\* C15: every PING control line the Session reads is answered with exactly one
\* PONG by the loop iteration that reads it, before anything later in the
\* stream is looked at; a PONG line causes no send.
C15_Heartbeat ==
    /\ [][C15_PingAnswered]_vars
    /\ [][C15_PongIgnored]_vars
    /\ [][C15_OnlyForPing]_vars

\* C15 witness: PONG, PING, PING handled: two PONGs sent, nothing else done.
C15_Witness ==
    /\ wire = StreamPong
    /\ pc = "running"
    /\ partial = <<>>
    /\ pos = Len(wire)
    /\ ProtocolEvents(events) = <<SendEv("PONG"), SendEv("PONG")>>

Dispatched(evs) == Len(EventsOf(evs, {"print_parsed_line"}))
PayloadPending ==
    /\ pc = "running"
    /\ IsSome(expected_payload)
    /\ Len(partial) < Unwrap(expected_payload) + 2

\* The payload bytes of the pending Message the transport has delivered: the
\* payload begins after the first CRLF of the streams of this model.
PayloadDelivered == pos - (FindCRLF(wire) + 1)

\* C16: while a payload is pending and the buffer is shorter than payload-len
\* + 2, nothing is dispatched and a read appends the received bytes to the
\* buffer as they are; a Message is dispatched only when the buffer holds the
\* declared payload and its CRLF, all of them received.
C16_PayloadBuffered ==
    /\ [][PayloadPending =>
            /\ Dispatched(events') = Dispatched(events)
            /\ pc' = "running" => partial' = partial \o SubSeq(wire, pos + 1, pos')]_vars
    /\ [][Dispatched(events') > Dispatched(events) =>
            /\ IsSome(expected_payload)
            /\ Len(partial) >= Unwrap(expected_payload) + 2
            /\ PayloadDelivered >= Unwrap(expected_payload) + 2]_vars

\* The tokens of a MSG/HMSG line that are its length fields parse.
Parses(tok) == IsSome(ParseUsize(tok))

C17_Msg ==
    LET parts == SplitWhitespace(NextLine)
        n == Len(parts)
    IN (AtLine /\ IsMsgHeader(NextLine) /\ n \in {4, 5} /\ Parses(parts[n])) =>
          /\ pc' = "running"
          /\ current_subject' = Some(parts[2])
          /\ expected_payload' = ParseUsize(parts[n])
          /\ expected_header_len' = None

C17_Hmsg ==
    LET parts == SplitWhitespace(NextLine)
        n == Len(parts)
    IN (AtLine /\ IsHmsgHeader(NextLine) /\ n \in {5, 6} /\ Parses(parts[n - 1])
            /\ Parses(parts[n])) =>
          /\ pc' = "running"
          /\ current_subject' = Some(parts[2])
          /\ expected_header_len' = ParseUsize(parts[n - 1])
          /\ expected_payload' = ParseUsize(parts[n])

\* C17: a MSG line takes payload-len from its last token whether it has 4
\* tokens or 5 (reply present), an HMSG line takes header-len and total-len
\* from its last two tokens whether it has 5 tokens or 6, and the Session
\* goes on to the payload.
C17_ReplyByArgCount ==
    /\ [][C17_Msg]_vars
    /\ [][C17_Hmsg]_vars

HELLO == <<"h", "e", "l", "l", "o">>

\* On the stream w, whose HMSG line declares hlen and len: once the Session
\* dispatched, it dispatched one Message, subject s and body hello, the whole
\* stream is consumed, and nothing of it is left to be read as a control line.
OneHello(w, hlen, len) ==
    (wire = w /\ Dispatched(events) >= 1) =>
        /\ EventsOf(events, {"frame", "print_parsed_line", "try_spawn", "panic"}) =
               <<Ev("frame", "HMSG", <<"s">>, <<>>, len, hlen),
                 Ev("print_parsed_line", "", <<"s">>, HELLO, 0, 0),
                 Ev("try_spawn", "", <<"s">>, HELLO, 0, 0)>>
        /\ pos = Len(wire)
        /\ partial = <<>>
        /\ ~IsSome(expected_payload)

\* C18 as written: HMSG s 2 10 15 / NATS/1.0 CRLF CRLF hello CRLF gives one
\* Message with subject s and body hello, and leaves no residual bytes.
C18_AsWritten == OneHello(StreamHmsgExample, 10, 15)

\* C18: HMSG s 2 12 17 / NATS/1.0 CRLF CRLF hello CRLF (the header block is 12
\* bytes long, header block and body 17) gives one Message with subject s and
\* body hello, and leaves no residual bytes.
C18_HmsgExample == OneHello(StreamHmsgHello, 12, 17)

\* C18 witness: the Message of HMSG s 2 12 17 was dispatched over several frames.
C18_Witness ==
    /\ wire = StreamHmsgHello
    /\ pc = "running"
    /\ Dispatched(events) = 1
    /\ Last(events).body = HELLO
    /\ io.what = "Binary"

(* Properties of smart_ipfs_fetch_and_log.                                 *)
(***************************************************************************)
RecordsNamed(name) == SelectSeq(records, LAMBDA r : r.event = name)
Emitted(name) == Len(RecordsNamed(name))
SomeTaskOk == \E t \in DOMAIN tasks : tasks[t].st = "ok"

\* C1: a run in which a gateway task returned Ok emits exactly one
\* smart_ipfs_fetch_success and no smart_ipfs_fetch_failed; any other run emits
\* exactly one smart_ipfs_fetch_failed and no smart_ipfs_fetch_success.
C1_ExactlyOneTerminal ==
    /\ epc # "done" =>
          Emitted("smart_ipfs_fetch_success") = 0 /\ Emitted("smart_ipfs_fetch_failed") = 0
    /\ epc = "done" =>
          IF SomeTaskOk
          THEN Emitted("smart_ipfs_fetch_success") = 1 /\ Emitted("smart_ipfs_fetch_failed") = 0
          ELSE Emitted("smart_ipfs_fetch_success") = 0 /\ Emitted("smart_ipfs_fetch_failed") = 1

\* C8: when Phase 1 ends by the threshold timer, the local task not having
\* been observed as complete, the local task is among the tasks Phase 2 awaits.
C8_LocalAwaited ==
    [][(epc = "fallback" /\ ~local_consumed /\ epc' = "race")
          => \E i \in 1..Len(remaining_tasks') : remaining_tasks'[i] = LocalTask]_vars

\* C9: once smart_ipfs_fetch_success is emitted from Phase 2, no gateway task of
\* the invocation runs on: none opens its stream, reads a chunk or ends.
C9_LosersCancelled ==
    [][(epc = "done" /\ Emitted("smart_ipfs_fetch_success") = 1) => tasks' = tasks]_vars

LocalOnlySuccess == Rec("smart_ipfs_fetch_success", "local_only", LocalTask, -1)

C10_Run ==
    (\E i \in 1..Len(records) : records[i].strategy = "local_only") =>
        /\ records = <<Rec("smart_ipfs_fetch_start", "", -1, -1), LocalOnlySuccess>>
        /\ epc = "done"
        /\ remaining_tasks = <<>>
        /\ \A t \in DOMAIN tasks : t # LocalTask => tasks[t] = Unspawned

\* The select! observes the local task complete with Ok.
C10_Observed ==
    (epc = "select" /\ tasks[LocalTask].st = "ok" /\ local_consumed') =>
        (records' = Append(records, LocalOnlySuccess) /\ epc' = "done")

\* C10: a local success observed in Phase 1 before the threshold timer gives one
\* smart_ipfs_fetch_success with strategy local_only, and the engine returns: no
\* public gateway task is ever spawned and no smart_ipfs_fallback_start emitted.
C10_LocalOnly ==
    /\ []C10_Run
    /\ [][C10_Observed]_vars
    /\ [][epc = "done" => UNCHANGED <<epc, records, remaining_tasks>>]_vars

\* C10 witness: the engine returned with local_only, two public gateways configured.
C10_Witness ==
    /\ epc = "done"
    /\ public_gateways = 2
    /\ local_consumed
    /\ records[Len(records)] = LocalOnlySuccess

\* The records of Phase 2: those after smart_ipfs_fallback_start.
Phase2Records ==
    LET starts == {i \in 1..Len(records) : records[i].event = "smart_ipfs_fallback_start"}
    IN IF starts = {} THEN <<>>
       ELSE Drop(records, CHOOSE i \in starts : \A j \in starts : i <= j)

StrategyOfWinner(r) ==
    /\ r.strategy \in {"local_after_threshold", "fallback_to_public"}
    /\ r.strategy = "local_after_threshold" <=> r.task = LocalTask
    /\ r.strategy = "fallback_to_public" <=> r.task \in 1..public_gateways

C11_Records ==
    \A i \in 1..Len(Phase2Records) :
        Phase2Records[i].event = "smart_ipfs_fetch_success" =>
            /\ StrategyOfWinner(Phase2Records[i])
            /\ i > 1
            /\ Phase2Records[i - 1].task = Phase2Records[i].task
            /\ Phase2Records[i - 1].event =
                   IF Phase2Records[i].task = LocalTask THEN "smart_ipfs_local_late_success"
                   ELSE "smart_ipfs_public_success"

\* The success record of Phase 2 is about the task select_all returned, and
\* that task ended with Ok.
C11_Winner ==
    (epc = "race" /\ Emitted("smart_ipfs_fetch_success")' = 1) =>
        LET t == remaining_tasks[FirstReady(remaining_tasks)]
        IN /\ tasks[t].st = "ok"
           /\ Last(records').task = t
           /\ Last(records').strategy =
                  IF t = LocalTask THEN "local_after_threshold" ELSE "fallback_to_public"

\* C11: a smart_ipfs_fetch_success emitted from Phase 2 has strategy
\* local_after_threshold exactly when the winning task is the local gateway
\* task and fallback_to_public exactly when it is a public gateway task; Phase 2
\* never emits local_only.
C11_StrategyNaming ==
    /\ []C11_Records
    /\ [][C11_Winner]_vars

\* C11 witness: the local task won Phase 2 while two public tasks were spawned.
C11_Witness ==
    /\ epc = "done"
    /\ public_gateways = 2
    /\ Last(records).strategy = "local_after_threshold"
    /\ Last(records).task = LocalTask
    /\ \E i \in 1..Len(records) : records[i].event = "smart_ipfs_public_failed"

(***************************************************************************)
(* Properties of the whole process.                                        *)
(***************************************************************************)
\* Every engine invocation of this connection was spawned by the
\* try_spawn_smart_ipfs_fetch call just before it, with the engine enabled, for
\* a Message whose subject begins with coinImageUpdated.
C12_Gated ==
    \A i \in 1..Len(events) :
        events[i].ev = "spawn" =>
            /\ i > 1
            /\ events[i - 1].ev = "try_spawn"
            /\ events[i - 1].subject = events[i].subject
            /\ smart_ipfs_enabled
            /\ StartsWith(events[i].subject, COIN_IMAGE_UPDATED)

\* A step spawns at most one invocation, and only by dispatching a Message.
C12_OnePerMessage ==
    /\ spawned' - spawned \in {0, 1}
    /\ spawned' = spawned + 1 =>
          /\ Len(EventsOf(events', {"try_spawn"})) = Len(EventsOf(events, {"try_spawn"})) + 1
          /\ Last(events').ev = "spawn"
    /\ spawned' = spawned =>
          Len(EventsOf(events', {"spawn"})) <= Len(EventsOf(events, {"spawn"}))

\* C12: a dispatched Message starts at most one engine invocation, and none
\* unless the engine is enabled and the subject begins with coinImageUpdated;
\* the engine never runs without having been spawned.
C12_SpawnGating ==
    /\ [](C12_Gated /\ (epc # "idle" => spawned >= 1))
    /\ [][C12_OnePerMessage]_vars

\* C12 witness: the image update was dispatched and its invocation is running.
C12_Witness ==
    /\ wire = StreamImage
    /\ pc = "running"
    /\ events # <<>>
    /\ Last(events).ev = "spawn"
    /\ Last(events).body = <<"Q", "m">>
    /\ spawned = 1
    /\ epc = "race"

\* The terminal record of the invocation has been printed.
TerminalEmitted ==
    Emitted("smart_ipfs_fetch_success") + Emitted("smart_ipfs_fetch_failed") = 1

\* A step of main() or run_once leaves the engine and its tasks alone.
C13_Untouched ==
    (pc' # pc \/ events' # events \/ reconnects' # reconnects \/ sleeps' # sleeps)
        => UNCHANGED fetchVars

\* Wherever main() is, a started invocation that has not returned can go on.
C13_CanGoOn ==
    (epc \notin {"idle", "done"}) =>
        \/ ENABLED EngineNext
        \/ \E t \in DOMAIN tasks : Running(t)

\* C13: the invocation spawned during a Session is not cancelled when the
\* Session fails and main() reconnects: no step of the Supervisor or of a later
\* Session touches it, and it goes on to print its terminal record.
C13_FetchOutlivesSession ==
    /\ []C13_CanGoOn
    /\ [][C13_Untouched]_vars
    /\ (spawned >= 1) ~> (epc = "done" /\ TerminalEmitted)

\* C13 witness: the invocation spawned in a Session that failed printed its
\* terminal record during the next Session, after the backoff sleep.
C13_Witness ==
    /\ spawned = 1
    /\ Len(sleeps) >= 1
    /\ pc = "running"
    /\ SpawnCount(events) = 0
    /\ epc = "done"
    /\ TerminalEmitted
    /\ Last(records).strategy = "fallback_to_public"

(***************************************************************************)
(* Properties of build_connect_options and extract_cid_from_url.           *)
(***************************************************************************)
IsSet(name) == IsSome(env[name])
Keys == DOMAIN Unwrap(connect_options)

\* C14: the CONNECT options hold the keys of the highest-precedence credential
\* configured, jwt (with sig when set) before auth_token before user/pass, and
\* no key of a credential of lower precedence.
C14_CredentialPrecedence ==
    IsSome(connect_options) =>
        /\ IsSet("PUMP_NATS_JWT") =>
              /\ "jwt" \in Keys
              /\ "sig" \in Keys <=> IsSet("PUMP_NATS_SIG")
              /\ Keys \cap {"auth_token", "user", "pass"} = {}
        /\ (~IsSet("PUMP_NATS_JWT") /\ IsSet("PUMP_NATS_TOKEN")) =>
              /\ "auth_token" \in Keys
              /\ Keys \cap {"jwt", "sig", "user", "pass"} = {}
        /\ (~IsSet("PUMP_NATS_JWT") /\ ~IsSet("PUMP_NATS_TOKEN")) =>
              /\ {"user", "pass"} \subseteq Keys
              /\ Keys \cap {"jwt", "sig", "auth_token"} = {}

\* C19: for an address in one of the four well-formed forms, extract_cid_from_url
\* returns the cid the address was written for.
C19_SameCid ==
    (IsSome(extracted) /\ address.form \in 1..4) => Unwrap(extracted) = Some(address.cid)

\* C20: extract_cid_from_url returns None or a non-empty cid.
C20_NeverEmpty ==
    IsSome(extracted) => (Unwrap(extracted) = None \/ Unwrap(Unwrap(extracted)) # <<>>)

(***************************************************************************)
(* Properties of the phases of smart_ipfs_fetch_and_log.                   *)
(***************************************************************************)
\* The records up to the race of a run whose local task outlasted the threshold.
StalledLocal ==
    <<Rec("smart_ipfs_fetch_start", "", -1, -1),
      Rec("smart_ipfs_local_threshold_exceeded", "", LocalTask, -1),
      Rec("smart_ipfs_fallback_start", "", -1, -1)>>

\* The records of the run in which the public task t then wins.
FallbackToPublic(t) ==
    StalledLocal \o <<Rec("smart_ipfs_public_success", "", t, -1),
                      Rec("smart_ipfs_fetch_success", "fallback_to_public", t, 0)>>

\* The events of the records, in order, without the per-gateway failures and
\* the task errors of the other tasks.
EventsWithoutFailures ==
    LET kept == SelectSeq(records, LAMBDA r : r.event \notin {"smart_ipfs_public_failed",
                                                             "smart_ipfs_task_error"})
    IN [i \in 1..Len(kept) |-> kept[i].event]

\* The local task is still running after the threshold, nothing has completed
\* in Phase 2 yet, and the first completion select_all returns is the Ok of a
\* public task: the engine prints the two success records and returns.
C21_FirstPublicWins ==
    (/\ epc = "race"
     /\ records = StalledLocal
     /\ Running(LocalTask)
     /\ FirstReady(remaining_tasks) # 0
     /\ tasks[remaining_tasks[FirstReady(remaining_tasks)]].st = "ok"
     /\ records' # records)
        => /\ records' = FallbackToPublic(remaining_tasks[FirstReady(remaining_tasks)])
           /\ epc' = "done"

\* Whatever failed in between, a run that began with the threshold and ended
\* with fallback_to_public printed the five records in their order, the
\* terminal one last.
C21_Order ==
    (/\ Len(records) >= 2
     /\ records[2].event = "smart_ipfs_local_threshold_exceeded"
     /\ Emitted("smart_ipfs_local_failed") = 0
     /\ \E i \in 1..Len(records) : records[i].strategy = "fallback_to_public")
        => /\ EventsWithoutFailures = [i \in 1..5 |-> FallbackToPublic(1)[i].event]
           /\ records[Len(records)].strategy = "fallback_to_public"
           /\ epc = "done"

\* C21: when the local gateway stalls past the threshold and the first public
\* gateway task to complete succeeds, the records are smart_ipfs_fetch_start,
\* smart_ipfs_local_threshold_exceeded, smart_ipfs_fallback_start,
\* smart_ipfs_public_success, smart_ipfs_fetch_success with strategy
\* fallback_to_public, in that order, and no record follows the last.
C21_FallbackOrder ==
    /\ [][C21_FirstPublicWins]_vars
    /\ []C21_Order
    /\ [][(epc = "done" /\ Emitted("smart_ipfs_fetch_success") = 1) => records' = records]_vars

\* C21 witness: the first public gateway won while the local task was still
\* reading its stream and the second public task was still running.
C21_Witness ==
    /\ epc = "done"
    /\ public_gateways = 2
    /\ records = FallbackToPublic(1)
    /\ tasks[LocalTask].st = "stream"
    /\ Running(2)

(***************************************************************************)
(* The Payload Dispatcher under the validation policies: run_once on       *)
(* streams of one Message followed by a PING, with ValidateConfig drawn at *)
(* the start (main() reads it once, smart_fetcher.rs:844).                 *)
(***************************************************************************)
MINT == <<"m", "i", "n", "t">>

\* VALIDATE_ENABLED unset, and three policies with it set.
ValidateConfigs ==
    {ValidateDefault,
     ValidateConfig(TRUE, <<>>, TRUE, FALSE),
     ValidateConfig(TRUE, <<COIN_IMAGE_UPDATED>>, FALSE, TRUE),
     ValidateConfig(TRUE, <<ADVANCED_NEW_COIN_CREATED, COIN_IMAGE_UPDATED>>, TRUE, TRUE)}

\* MSG a 1 2 / 12: a payload that is JSON but not an object
StreamNonObject == MsgLine(<<"a">>, <<"2">>) \o <<"1", "2">> \o CRLF \o PING_LINE
\* MSG a 1 14 / {"image":"Qm"}: no mint, and a subject outside the allowed prefixes
StreamNoMint == MsgLine(<<"a">>, <<"1", "4">>) \o IMAGE_BODY \o CRLF \o PING_LINE
\* {"mint":"m","image":"Qm"}
MINT_IMAGE_BODY ==
    <<"{", QUOTE>> \o MINT \o <<QUOTE, ":", QUOTE, "m", QUOTE, ",">> \o Drop(IMAGE_BODY, 1)
\* MSG coinImageUpdated 1 25 / {"mint":"m","image":"Qm"}: a valid Message
StreamValid == MsgLine(COIN_IMAGE_UPDATED, <<"2", "5">>) \o MINT_IMAGE_BODY \o CRLF \o PING_LINE

\* {"mint":5,"image":"Qm"}: a mint that is a number
MINT_NUMBER_BODY == <<"{", QUOTE>> \o MINT \o <<QUOTE, ":", "5", ",">> \o Drop(IMAGE_BODY, 1)
StreamMintNumber == MsgLine(COIN_IMAGE_UPDATED, <<"2", "3">>) \o MINT_NUMBER_BODY \o CRLF \o PING_LINE
\* {"mint":null,"image":"Qm"}
MINT_NULL_BODY ==
    <<"{", QUOTE>> \o MINT \o <<QUOTE, ":", "n", "u", "l", "l", ",">> \o Drop(IMAGE_BODY, 1)
StreamMintNull == MsgLine(COIN_IMAGE_UPDATED, <<"2", "6">>) \o MINT_NULL_BODY \o CRLF \o PING_LINE
\* {"mint":"","image":"Qm"}
MINT_EMPTY_BODY ==
    <<"{", QUOTE>> \o MINT \o <<QUOTE, ":", QUOTE, QUOTE, ",">> \o Drop(IMAGE_BODY, 1)
StreamMintEmpty == MsgLine(COIN_IMAGE_UPDATED, <<"2", "4">>) \o MINT_EMPTY_BODY \o CRLF \o PING_LINE

\* StreamMsg: the payload abc is not JSON; StreamHmsg: nor is the body hi;
\* StreamNoImage: an object without mint and image.
PayloadStreams ==
    {StreamMsg, StreamHmsg \o PING_LINE, StreamNonObject, StreamNoImage \o PING_LINE,
     StreamNoMint, StreamValid, StreamMintNumber, StreamMintNull, StreamMintEmpty}

DispatchInit ==
    /\ ProgramInit
    /\ smart_ipfs_enabled = TRUE
    /\ vcfg \in ValidateConfigs
    /\ config = SmartIpfsDefault
    /\ env = EnvUnset
    /\ address = NoAddress

DispatchNext ==
    \/ \E w \in PayloadStreams : Len(reconnects) < MaxAppReconnects /\ Connect(w)
    \/ \E n \in {1, 2, Len(wire) - pos}, kind \in {"Text", "Binary"} : Recv(n, kind)
    \/ \E kind \in {"Close", "Err"} : RecvEnd(kind)
    \/ Step(0)
    \/ Reconnect
    \/ Wake

DispatchSpec == DispatchInit /\ [][DispatchNext]_vars

(***************************************************************************)
(* Properties of the Payload Dispatcher.                                   *)
(***************************************************************************)
\* What print_parsed_line and try_spawn_smart_ipfs_fetch leave in the history.
DispatcherEvents ==
    {"print_parsed_line", "line", "validation_error", "try_spawn", "smart_ipfs_skip", "spawn"}

\* The buffer after the pending payload is taken.
AfterPayload ==
    IF SubSeq(partial, Unwrap(expected_payload) + 1, Unwrap(expected_payload) + 2) = CRLF
    THEN Drop(partial, Unwrap(expected_payload) + 2)
    ELSE Drop(partial, Unwrap(expected_payload))

\* The step that dispatches a Message, whatever its body is: run_once goes on,
\* the framer state is the one after any taken payload, and the step added
\* only records of the dispatcher to the history.
C22_OnlyLogs ==
    (pc = "running" /\ Dispatched(events') > Dispatched(events)) =>
        /\ pc' = "running"
        /\ partial' = AfterPayload
        /\ expected_payload' = None
        /\ expected_header_len' = None
        /\ current_subject' = None
        /\ connected' = connected
        /\ Dispatched(events') = Dispatched(events) + 1
        /\ IsPrefix(events, events')
        /\ \A i \in (Len(events) + 1)..Len(events') : events'[i].ev \in DispatcherEvents

\* The problem of the body, if any, is in the records of the Message.
C22_Logged ==
    \A i \in 1..Len(events) :
        events[i].ev = "print_parsed_line" =>
            /\ Len(events) > i
            /\ events[i + 1].ev = "line"
            /\ events[i + 1].arg =
                   CASE JsonValue(Unquoted(events[i].body)).kind = "error" -> "error"
                     [] JsonValue(Unquoted(events[i].body)).kind = "other" -> "non_object"
                     [] OTHER -> "object"

\* The PING that follows the Message is answered once the stream is consumed.
C22_NextFrame ==
    (pc = "running" /\ pos = Len(wire) /\ partial = <<>> /\ wire \in PayloadStreams) =>
        /\ Dispatched(events) = 1
        /\ Last(events) = SendEv("PONG")
        /\ ~IsSome(expected_payload)

\* C22: a Message whose body is not JSON, is JSON but not an object, or breaks
\* an enabled validation rule only adds log records: run_once does not return,
\* the framer state is the same as after a valid Message, and the control line
\* after the Message is processed.
C22_PayloadProblemsNotFatal ==
    /\ [][C22_OnlyLogs]_vars
    /\ [](C22_Logged /\ C22_NextFrame)

\* C22 witness: an object without mint and image under the policy that
\* requires both, received in Binary frames; the PING after it was answered.
C22_Witness ==
    /\ wire = StreamNoImage \o PING_LINE
    /\ pc = "running"
    /\ events # <<>>
    /\ Last(events) = SendEv("PONG")
    /\ io.what = "Binary"
    /\ EventsOf(events, {"validation_error"}) =
           <<Line("validation_error", "missing_mint", COIN_IMAGE_UPDATED),
             Line("validation_error", "missing_image", COIN_IMAGE_UPDATED)>>

(***************************************************************************)
(* Properties of the race of Phase 2.                                      *)
(***************************************************************************)
Awaited == {remaining_tasks[i] : i \in 1..Len(remaining_tasks)}

\* The task select_all returns next.
Observed == remaining_tasks[FirstReady(remaining_tasks)]

\* The per-gateway failure records about task t.
FailuresOf(t) ==
    SelectSeq(records, LAMBDA r : r.task = t /\ r.event = IF t = LocalTask
                                                           THEN "smart_ipfs_local_failed"
                                                           ELSE "smart_ipfs_public_failed")

\* The engine takes a completion out of select_all.
Observes == epc = "race" /\ FirstReady(remaining_tasks) # 0 /\ records' # records

\* The observed task is taken out of the awaited set; no task is touched.
Removed ==
    /\ Awaited' = Awaited \ {Observed}
    /\ Len(remaining_tasks') = Len(remaining_tasks) - 1
    /\ tasks' = tasks
    /\ epc' = "race"

C25_Failure ==
    (Observes /\ tasks[Observed].st = "err") =>
        /\ records' = Append(records, Rec(IF Observed = LocalTask THEN "smart_ipfs_local_failed"
                                          ELSE "smart_ipfs_public_failed", "", Observed, -1))
        /\ failed_gateways' = failed_gateways + 1
        /\ Removed

C25_Abort ==
    (Observes /\ tasks[Observed].st = "aborted") =>
        /\ records' = Append(records, Rec("smart_ipfs_task_error", "", -1, -1))
        /\ failed_gateways' = failed_gateways
        /\ Removed

\* During the race: a public task no longer awaited has ended and, if it
\* failed, has one failure record; an awaited task has none; there are as many
\* task_error records as aborted tasks taken out of the set.
C25_OneRecordEach ==
    epc = "race" =>
        /\ \A t \in 1..public_gateways :
              IF t \in Awaited THEN FailuresOf(t) = <<>>
              ELSE /\ IsFinished(t)
                   /\ tasks[t].st = "err" => Len(FailuresOf(t)) = 1
                   /\ tasks[t].st = "aborted" => FailuresOf(t) = <<>>
        /\ LocalTask \in Awaited => FailuresOf(LocalTask) = <<>>
        /\ Len(FailuresOf(LocalTask)) <= 1
        /\ Emitted("smart_ipfs_task_error")
               - Cardinality({t \in 1..public_gateways : t \notin Awaited /\ tasks[t].st = "aborted"})
               \in (IF tasks[LocalTask].st = "aborted" /\ LocalTask \notin Awaited
                    THEN {0, 1} ELSE {0})

\* The race is given up only when nothing is awaited and no task is running.
C25_KeepsWaiting ==
    Emitted("smart_ipfs_fetch_failed")' > Emitted("smart_ipfs_fetch_failed") =>
        /\ remaining_tasks = <<>>
        /\ \A t \in DOMAIN tasks : ~Running(t)

Max(a, b) == IF a >= b THEN a ELSE b

\* max(local-timeout, public-timeout) + fallback-threshold
LatencyBound ==
    Max(config.local_timeout_ms, config.public_timeout_ms) + config.fallback_threshold_ms

\* The invocation never waits beyond the bound, and has returned only after
\* printing its terminal record.
C23_WithinBound ==
    /\ epc # "idle" => now - total_start <= LatencyBound
    /\ epc = "done" => TerminalEmitted

\* C23: every invocation whose gateway tasks end (each by its timeout at the
\* latest) prints a terminal record, smart_ipfs_fetch_success or
\* smart_ipfs_fetch_failed, and returns, no later than max(local-timeout,
\* public-timeout) + fallback-threshold after its start.
C23_Terminates ==
    /\ []C23_WithinBound
    /\ (epc # "idle") ~> (epc = "done" /\ TerminalEmitted)

\* C23 witness: every gateway used its whole timeout and the terminal record
\* came exactly max(local-timeout, public-timeout) + fallback-threshold after
\* the start.
C23_Witness ==
    /\ epc = "done"
    /\ Emitted("smart_ipfs_fetch_failed") = 1
    /\ public_gateways = 2
    /\ now - total_start = LatencyBound
    /\ config.local_timeout_ms > config.fallback_threshold_ms
    /\ \A t \in DOMAIN tasks : tasks[t].st = "err"

LocalFailed == Rec("smart_ipfs_local_failed", "", LocalTask, -1)

\* The select! observes the local task complete with Err.
C24_Observed ==
    (epc = "select" /\ tasks[LocalTask].st = "err" /\ local_consumed') =>
        /\ records' = Append(records, LocalFailed)
        /\ epc' = "fallback"

\* From there the engine starts Phase 2 at once, with one task per public
\* gateway and nothing else.
C24_Phase2 ==
    (epc = "fallback" /\ local_consumed /\ tasks[LocalTask].st = "err") =>
        /\ now' = now
        /\ epc' = "race"
        /\ fallback_start' = now
        /\ records' = Append(records, Rec("smart_ipfs_fallback_start", "", -1, -1))
        /\ remaining_tasks' = [i \in 1..public_gateways |-> i]
        /\ \A i \in 1..public_gateways : tasks[i] = Unspawned /\ tasks'[i] = Spawned

\* The local task is never awaited again, and the threshold never reported.
C24_NotAwaitedAgain ==
    (local_consumed /\ tasks[LocalTask].st = "err") =>
        /\ \A i \in 1..Len(remaining_tasks) : remaining_tasks[i] # LocalTask
        /\ RecordsNamed("smart_ipfs_local_failed") = <<LocalFailed>>
        /\ records[2] = LocalFailed
        /\ Emitted("smart_ipfs_local_threshold_exceeded") = 0
        /\ Emitted("smart_ipfs_local_late_success") = 0
        /\ \A i \in 1..Len(records) : records[i].strategy # "local_after_threshold"

\* C24: a failure of the local task observed in Phase 1 before the threshold
\* timer prints smart_ipfs_local_failed; the engine goes on to Phase 2 without
\* waiting for the threshold, and the tasks of Phase 2 are one per public
\* gateway: the local task is not among them and is not awaited again.
C24_LocalFailureInPhase1 ==
    /\ [][C24_Observed]_vars
    /\ [][C24_Phase2]_vars
    /\ []C24_NotAwaitedAgain

\* C24 witness: Phase 2 began before the threshold had elapsed, awaiting the
\* two public tasks only.
C24_Witness ==
    /\ epc = "race"
    /\ local_consumed
    /\ records = <<Rec("smart_ipfs_fetch_start", "", -1, -1), LocalFailed,
                   Rec("smart_ipfs_fallback_start", "", -1, -1)>>
    /\ remaining_tasks = <<1, 2>>
    /\ fallback_start < total_start + config.fallback_threshold_ms
    /\ tasks[1].st = "stream"

(***************************************************************************)
(* Properties of fetch_from_gateway.                                       *)
(***************************************************************************)
\* Task t reads a chunk: its length.
ChunkRead(t) == tasks'[t].bytes - tasks[t].bytes

\* A step of task t while it reads the body: a chunk is counted and the cap
\* tested, or the stream ends (Ok with the bytes counted), or the upstream
\* fails (stream_error), or the task is aborted.
C26_BodyStep(t) ==
    (tasks[t].st = "stream" /\ tasks'[t] # tasks[t]) =>
        \/ /\ ChunkRead(t) \in 1..MaxChunk
           /\ tasks'[t].st = IF tasks'[t].bytes >= config.max_bytes THEN "ok" ELSE "stream"
           /\ tasks'[t].err = ""
        \/ tasks'[t] = Task("ok", tasks[t].bytes, "")
        \/ tasks'[t] = Task("err", 0, "stream_error")
        \/ tasks'[t] = Task("aborted", 0, "")

\* The errors of a task: those of the request, and stream_error.
C26_Errors ==
    \A t \in DOMAIN tasks :
        tasks[t].st = "err" =>
            tasks[t].err \in {"client_build", "request_failed", "http_status", "stream_error"}

\* As claimed: a task whose total has reached max-bytes reads no further
\* chunk, and the count it returns is less than max-bytes plus the length of
\* the last chunk read.
C26_AsClaimed ==
    /\ [](\A t \in DOMAIN tasks : tasks[t].st = "stream" => tasks[t].bytes < config.max_bytes)
    /\ [][\A t \in DOMAIN tasks :
            (tasks[t].st = "stream" /\ tasks'[t].st = "ok" /\ ChunkRead(t) > 0) =>
                tasks'[t].bytes < config.max_bytes + ChunkRead(t)]_vars

\* The cap is tested after a chunk, not before the first: a task that reads
\* has counted less than max-bytes or nothing yet, and the count it returns is
\* at most max-bytes plus the length of the last chunk, less when max-bytes >= 1.
C26_TestedAfterChunk ==
    /\ [](\A t \in DOMAIN tasks :
            tasks[t].st = "stream" => tasks[t].bytes < config.max_bytes \/ tasks[t].bytes = 0)
    /\ [][\A t \in DOMAIN tasks :
            (tasks[t].st = "stream" /\ tasks'[t].st = "ok" /\ ChunkRead(t) > 0) =>
                /\ tasks'[t].bytes <= config.max_bytes + ChunkRead(t)
                /\ config.max_bytes >= 1 => tasks'[t].bytes < config.max_bytes + ChunkRead(t)]_vars

\* C26: the byte cap is a success: the cap is tested after each chunk, and
\* once the total is >= max-bytes the task reads no further chunk and returns
\* Ok with the bytes counted, never an error; an upstream error before that is a
\* stream_error; the count is the sum of the chunks read, at most max-bytes
\* plus the length of the last chunk (less when max-bytes >= 1).
C26_ByteCap ==
    /\ [][\A t \in DOMAIN tasks : C26_BodyStep(t)]_vars
    /\ []C26_Errors
    /\ C26_TestedAfterChunk

\* C26 witness: with max-bytes 2 the local task read a chunk of 1 byte and one
\* of 2, and returned Ok with 3 bytes.
C26_Witness ==
    /\ config.max_bytes = 2
    /\ epc # "idle"
    /\ tasks[LocalTask] = Task("ok", 3, "")

(***************************************************************************)
(* The Framer of run_once on streams of control lines and payloads of      *)
(* every shape: payloads with and without the trailing CRLF, payloads that *)
(* hold control text or bytes that are not UTF-8, lines close to PING and  *)
(* -ERR, and the frames of the transport that carry no bytes.              *)
(***************************************************************************)
\* MSG a 1 3 / abc, with PING in place of the CRLF after the payload
StreamNoCrlf == MsgLine(<<"a">>, <<"3">>) \o <<"a", "b", "c">> \o PING_LINE
\* PINGX
StreamPingx == <<"P", "I", "N", "G", "X">> \o CRLF
\* -ERRATA / PING
StreamErrata == <<"-", "E", "R", "R", "A", "T", "A">> \o CRLF \o PING_LINE
\* +OK / (empty line) / PING
StreamUnknown == <<"+", "O", "K">> \o CRLF \o CRLF \o PING_LINE
\* MSG a 1 6 / A9 A9 PING: a payload that starts with two bytes that are not UTF-8
StreamOpaque == MsgLine(<<"a">>, <<"6">>) \o <<"xA9", "xA9", "P", "I", "N", "G">> \o CRLF
\* MSG a 1 10 / PING CRLF -ERR, then PING, then MSG b 1 1 / x
StreamControlText ==
    MsgLine(<<"a">>, <<"1", "0">>) \o <<"P", "I", "N", "G", "CR", "LF", "-", "E", "R", "R">> \o CRLF
        \o PING_LINE \o MsgLine(<<"b">>, <<"1">>) \o <<"x">> \o CRLF

FramerStreams ==
    {StreamNoCrlf, StreamMsg, StreamHmsg, StreamHmsgLong, StreamUtf8Short, StreamPingx,
     StreamErrata, StreamErr, StreamUnknown, StreamOpaque, StreamControlText}

\* ws.next() returns a raw Message::Frame, which the loop ignores.
RecvRaw ==
    /\ pc = "running"
    /\ NeedsRead(Sess)
    /\ io' = [op |-> "read", what |-> "Frame"]
    /\ SetSess(OnFrame(Sess, Frame("Frame", <<>>), TRUE))
    /\ UNCHANGED <<wire, pos, pings, backoff, reconnects, sleeps, fetchVars, envVars, fnVars, spawned>>

FramerNext ==
    \/ \E w \in FramerStreams : Len(reconnects) < MaxAppReconnects /\ Connect(w)
    \/ \E n \in {1, 2, Len(wire) - pos}, kind \in {"Text", "Binary"} : Recv(n, kind)
    \/ \E sendOk \in BOOLEAN : RecvPing(sendOk)
    \/ RecvIgnored
    \/ RecvRaw
    \/ \E kind \in {"Close", "Err"} : RecvEnd(kind)
    \/ \E fail \in 0..1 : Step(fail)
    \/ Reconnect
    \/ Wake

FramerSpec == Init /\ [][FramerNext]_vars

(***************************************************************************)
(* Properties of the Framer.                                               *)
(***************************************************************************)
\* The payload is buffered: the loop takes it in its next iteration.
PayloadBuffered ==
    /\ pc = "running"
    /\ IsSome(expected_payload)
    /\ Len(partial) >= Unwrap(expected_payload) + 2

\* C27: with the payload and two more bytes buffered, run_once takes the
\* first payload-len bytes as the payload, consumes the two bytes after it
\* if they are CRLF and only the payload otherwise, dispatches the Message and
\* clears the pending payload state.
C27_PayloadTake ==
    [][PayloadBuffered =>
        /\ pc' = "running"
        /\ partial' = AfterPayload
        /\ expected_payload' = None
        /\ expected_header_len' = None
        /\ current_subject' = None
        /\ Dispatched(events') = Dispatched(events) + 1
        /\ \E e \in {events'[i] : i \in (Len(events) + 1)..Len(events')} :
              /\ e.ev = "print_parsed_line"
              /\ e.subject = SubjectOrEmpty(current_subject)
              /\ e.body = IF IsSome(expected_header_len)
                          THEN SubSeq(partial, Unwrap(expected_header_len) + 1,
                                      Unwrap(expected_payload))
                          ELSE Take(partial, Unwrap(expected_payload))]_vars


\* The control line at the head of the buffer, and its first token.
HeadLine == Take(partial, FindCRLF(partial) - 1)
FirstToken(line) == IF SplitWhitespace(line) = <<>> THEN <<>> ELSE SplitWhitespace(line)[1]
ControlTokens ==
    {<<"P", "I", "N", "G">>, <<"P", "O", "N", "G">>, <<"-", "E", "R", "R">>,
     <<"I", "N", "F", "O">>, <<"M", "S", "G">>, <<"H", "M", "S", "G">>}

\* A control line is buffered: the loop classifies it in its next iteration.
LineBuffered == pc = "running" /\ ~IsSome(expected_payload) /\ FindCRLF(partial) > 0

\* C28: control lines are classified by their first token: only a line whose
\* first token is exactly PING is answered with PONG, only one whose first
\* token is exactly -ERR is fatal, and an empty line or a line whose first token
\* is none of the six is skipped: nothing sent, nothing changed but the buffer.
C28_ByFirstToken ==
    [][LineBuffered =>
        /\ Len(EventsOf(events', {"send"})) > Len(EventsOf(events, {"send"}))
              /\ Last(events').arg = "PONG"
              => FirstToken(HeadLine) = <<"P", "I", "N", "G">>
        /\ (pc' = "failed" /\ Last(events').arg = "server error")
              => FirstToken(HeadLine) = <<"-", "E", "R", "R">>
        /\ FirstToken(HeadLine) \notin ControlTokens =>
              /\ pc' = "running"
              /\ partial' = Drop(partial, FindCRLF(partial) + 1)
              /\ UNCHANGED <<expected_payload, expected_header_len, current_subject,
                             connected, events>>]_vars


\* The protocol events a byte stream asks for, in order, its payloads counted
\* in bytes of the stream: a PONG for each PING line, a Message for each
\* MSG/HMSG line whose payload and CRLF follow.
Pong == <<"PONG">>
Msg(subject) == <<"MSG", subject>>
RECURSIVE InOrder(_)
InOrder(w) ==
    IF FindCRLF(w) = 0 THEN <<>>
    ELSE LET line == Take(w, FindCRLF(w) - 1)
             rest == Drop(w, FindCRLF(w) + 1)
             parts == SplitWhitespace(line)
             n == ParseUsize(Last(parts))
         IN CASE FirstToken(line) = <<"P", "I", "N", "G">> -> <<Pong>> \o InOrder(rest)
              [] FirstToken(line) \in {<<"M", "S", "G">>, <<"H", "M", "S", "G">>} ->
                    IF ~IsSome(n) \/ Len(rest) < Unwrap(n) + 2 THEN <<>>
                    ELSE <<Msg(parts[2])>> \o InOrder(Drop(rest, Unwrap(n) + 2))
              [] OTHER -> InOrder(rest)

\* The PONG replies and the Messages of the Session so far, in order.
RECURSIVE Answered(_)
Answered(evs) ==
    IF evs = <<>> THEN <<>>
    ELSE (CASE evs[1].ev = "send" /\ evs[1].arg = "PONG" -> <<Pong>>
            [] evs[1].ev = "print_parsed_line" -> <<Msg(evs[1].subject)>>
            [] OTHER -> <<>>) \o Answered(Drop(evs, 1))

\* The streams in which each declared payload is followed by CRLF and each
\* control line is one of the protocol.
FramedStreams == {StreamMsg, StreamHmsg, StreamErr, StreamOpaque, StreamControlText}

\* C29: a Session processes frames in the order of the bytes received:
\* Messages in the order of their MSG/HMSG lines, each PONG after the Messages
\* that precede its PING and before those that follow, and no byte of a declared
\* payload read as a control line.
C29_Fifo ==
    (pc \in {"running", "failed"} /\ wire \in FramedStreams) =>
        IsPrefix(Answered(events), InOrder(wire))


\* A read of the transport returned a WebSocket Ping.
PingRead == pc = "running" /\ pings' = pings + 1

\* A read of the transport returned a WebSocket Pong or a raw Frame.
IgnoredRead == pc = "running" /\ io' # io /\ io'.op = "read" /\ io'.what \in {"Pong", "Frame"}

\* The Session but for its history.
FramerState == <<pc, partial, expected_payload, expected_header_len, current_subject, connected>>

\* A Ping is answered with one Pong (a Pong that cannot be sent is dropped,
\* and nothing else is sent), whatever the framer waits for.
C30_Answered ==
    PingRead =>
        /\ NeedsRead(Sess)
        /\ events' = IF io'.op = "read" THEN Append(events, SendEv("ws_pong")) ELSE events
        /\ UNCHANGED FramerState

C30_Ignored == IgnoredRead => UNCHANGED <<FramerState, events>>

\* C30: a WebSocket Ping read in line mode or with a payload pending is
\* answered with one empty Pong and changes neither the buffer, the pending
\* lengths, the pending subject nor the connected flag; a WebSocket Pong and a
\* raw Frame are ignored and change nothing.
C30_TransportPing == [][C30_Answered /\ C30_Ignored]_vars

\* C30 witness: with the payload of a MSG half buffered a Ping was read and
\* answered, and then a raw Frame was read.
C30_Witness ==
    /\ pc = "running"
    /\ IsSome(expected_payload)
    /\ partial # <<>>
    /\ pings = 1
    /\ io = [op |-> "read", what |-> "Frame"]
    /\ Last(events) = SendEv("ws_pong")


\* A read of the transport returned a Text or a Binary frame with bytes in it.
BytesRead == pc = "running" /\ pos' > pos

\* body is a contiguous part of the stream w.
PartOf(body, w) ==
    \E i \in 0..(Len(w) - Len(body)) : SubSeq(w, i + 1, i + Len(body)) = body

\* C31: payloads are opaque bytes: a frame of any bytes, UTF-8 or not, grows
\* the buffer by exactly the bytes received, and the body of a Message is made
\* of the bytes of the stream that followed its control line.
C31_OpaqueBytes ==
    /\ [][BytesRead => partial' = partial \o SubSeq(wire, pos + 1, pos')]_vars
    /\ [](\A i \in 1..Len(events) :
            events[i].ev = "print_parsed_line" => PartOf(events[i].body, wire))


(***************************************************************************)
(* main() over the lifetime of the process: Sessions that shake hands,     *)
(* deliver Messages and fail, one after the other, with every send that    *)
(* can fail.                                                                *)
(***************************************************************************)
\* INFO {} / MSG a 1 3 / abc / PING
StreamSession == INFO_LINE \o StreamMsg
\* HMSG s 2 4 6 / four header bytes and "hi", then MSG a 1 3 / abc / PING
StreamHmsgThenMsg == StreamHmsg \o StreamMsg

LifetimeStreams == {StreamSession, StreamHmsgThenMsg, StreamHmsgLong, StreamErr}

LifetimeNext ==
    \/ \E w \in LifetimeStreams : Connect(w)
    \/ ConnectFail
    \/ \E n \in {1, 2, Len(wire) - pos}, kind \in {"Text", "Binary"} : Recv(n, kind)
    \/ \E sendOk \in BOOLEAN : RecvPing(sendOk)
    \/ \E kind \in {"Close", "None", "Err"} : RecvEnd(kind)
    \/ \E fail \in 0..4 : Step(fail)
    \/ Reconnect
    \/ Wake

LifetimeSpec == Init /\ [][LifetimeNext]_vars

(***************************************************************************)
(* Properties of main() over the lifetime of the process.                  *)
(***************************************************************************)
\* run_once is left only with Err (or by a panic, which is no return), and
\* main() constructs the next Session only after the sleep of its Err branch.
C32_NeverOk ==
    /\ (pc = "running" /\ pc' # "running") =>
          \/ pc' = "failed" /\ Last(events').ev = "return_err"
          \/ pc' = "panicked"
    /\ pc' = "failed" => pc \in {"running", "connecting", "failed"}
    /\ (pc' = "connecting" /\ pc # "connecting") => pc = "sleeping" /\ Len(sleeps') = Len(sleeps) + 1

\* backoff never decreases, and stays 30 once it is 30.
C32_Monotone ==
    /\ backoff' >= backoff
    /\ backoff = 30 => backoff' = 30
    /\ (backoff = 30 /\ pc = "failed" /\ pc' = "sleeping") => Last(reconnects') = 30
    /\ (backoff = 30 /\ pc = "sleeping" /\ pc' = "connecting") => Last(sleeps') = 30

\* C32: run_once never returns Ok: every exit from its loop is an Err, the
\* reset of backoff to 1 is never reached, backoff never decreases, and once it
\* is 30 every later reconnect sleeps 30 seconds, whatever the Session did.
C32_BackoffNeverResets == [][C32_NeverOk /\ C32_Monotone]_vars

\* C32 witness: with backoff at 30 a Session completed the handshake, delivered
\* a Message and failed, and the reconnect after it sleeps 30 seconds again.
C32_Witness ==
    /\ pc = "sleeping"
    /\ Len(sleeps) >= 6
    /\ sleeps[6] = 30
    /\ Last(reconnects) = 30
    /\ connected
    /\ Dispatched(events) >= 1
    /\ Last(events).ev = "return_err"


(***************************************************************************)
(* Properties of print_parsed_line's validation.                           *)
(***************************************************************************)
\* The records print_parsed_line printed for the Message of events[i].
PrintedFor(i) ==
    SubSeq(events, i + 1,
           i + Len(print_parsed_line(events[i].subject, events[i].body, vcfg)))

HasReason(recs, reason) ==
    \E j \in 1..Len(recs) : recs[j].ev = "validation_error" /\ recs[j].arg = reason

\* The members of the object payload of events[i].
MembersOf(i) == JsonValue(Unquoted(events[i].body)).members

\* events[i] is the dispatch of a Message whose payload is an object.
ObjectDispatched(i) ==
    /\ events[i].ev = "print_parsed_line"
    /\ JsonValue(Unquoted(events[i].body)).kind = "object"

\* The field is a non-empty string: not absent, null, not a string, or empty.
NonEmptyString(members, key) == GetStr(members, key) # <<>>

\* C33: with validation enabled, require_mint emits validation_error /
\* missing_mint for an object payload exactly when mint is absent, null, not a
\* string or the empty string, and require_image does the same for image.
C33_MissingFields ==
    \A i \in 1..Len(events) :
        (ObjectDispatched(i) /\ vcfg.enabled) =>
            /\ vcfg.require_mint =>
                  (HasReason(PrintedFor(i), "missing_mint") <=> ~NonEmptyString(MembersOf(i), MINT))
            /\ vcfg.require_image =>
                  (HasReason(PrintedFor(i), "missing_image") <=> ~NonEmptyString(MembersOf(i), IMAGE))


\* main() constructs a Session: connect_async succeeded and run_once enters its loop.
SessionStarts == pc = "connecting" /\ pc' = "running"

\* The first INFO line of a Session is at the head of the buffer.
FirstInfo ==
    /\ LineBuffered
    /\ ~connected
    /\ StartsWith(HeadLine, <<"I", "N", "F", "O", "SP">>)

\* C34: Session state does not survive a reconnect: whatever the Session
\* before it had buffered when it failed, a new Session starts with an empty
\* buffer, no pending payload length, header length or subject, and connected =
\* false, and so answers its first INFO with the full handshake again.
C34_FreshSession ==
    /\ [][SessionStarts =>
            /\ partial' = <<>>
            /\ expected_payload' = None
            /\ expected_header_len' = None
            /\ current_subject' = None
            /\ connected' = FALSE
            /\ events' = <<>>]_vars
    /\ [][(FirstInfo /\ pc' = "running") =>
            /\ events' = events \o [i \in 1..4 |-> SendEv(HandshakeCmds[i])]
            /\ connected']_vars

\* C34 witness: the third Session of the process has read its first INFO and
\* sent the handshake again.
C34_Witness ==
    /\ pc = "running"
    /\ Len(sleeps) = 2
    /\ wire = StreamSession
    /\ connected
    /\ pos = Len(INFO_LINE)
    /\ EventsOf(events, {"send"}) = [i \in 1..4 |-> SendEv(HandshakeCmds[i])]


\* The pending framer state at the head of an iteration of the loop.
C35_Consistent ==
    pc = "running" =>
        /\ IsSome(current_subject) <=> IsSome(expected_payload)
        /\ IsSome(expected_header_len) => IsSome(expected_payload)

\* After a Message is dispatched nothing is pending.
C35_Cleared ==
    (pc' = "running" /\ Dispatched(events') > Dispatched(events)) =>
        /\ expected_payload' = None
        /\ expected_header_len' = None
        /\ current_subject' = None

\* A MSG line starts a payload without a header length, and its Message is
\* the whole payload.
C35_MsgLine ==
    /\ (LineBuffered /\ pc' = "running" /\ StartsWith(HeadLine, <<"M", "S", "G", "SP">>)) =>
          /\ expected_header_len' = None
          /\ IsSome(expected_payload')
    /\ (PayloadBuffered /\ ~IsSome(expected_header_len) /\ pc' = "running") =>
          Last(EventsOf(events', {"print_parsed_line"})).body = Take(partial, Unwrap(expected_payload))

\* C35: at the head of every iteration of the loop a subject is pending
\* exactly when a payload length is, and a header length only when a payload
\* length is; after a dispatch all three are absent, so the header length of an
\* HMSG is never applied to a later MSG.
C35_PendingState == []C35_Consistent /\ [][C35_Cleared /\ C35_MsgLine]_vars

\* C35 witness: after an HMSG with four header bytes the Message of the MSG
\* that follows it was dispatched with its whole payload abc.
C35_Witness ==
    /\ pc = "running"
    /\ wire = StreamHmsgThenMsg
    /\ Dispatched(events) = 2
    /\ EventsOf(events, {"print_parsed_line"})[1].body = <<"h", "i">>
    /\ EventsOf(events, {"print_parsed_line"})[2].body = <<"a", "b", "c">>
    /\ expected_payload = None /\ expected_header_len = None /\ current_subject = None


(***************************************************************************)
(* Properties of the loop of Phase 2.                                      *)
(***************************************************************************)
\* The head of an iteration of the loop with no task left to await.
NothingToAwait == epc = "race" /\ remaining_tasks = <<>>

\* C36: the engine never awaits the first completion of an empty task set:
\* with no task left, at the entry of Phase 2 included, it prints
\* smart_ipfs_fetch_failed and returns; select_all is awaited on one task or more.
C36_NoEmptySelect ==
    /\ [][NothingToAwait =>
            /\ epc' = "done"
            /\ records' = Append(records, Rec("smart_ipfs_fetch_failed", "", -1, failed_gateways))
            /\ UNCHANGED <<remaining_tasks, tasks>>]_vars
    /\ [][(epc = "race" /\ remaining_tasks' # remaining_tasks) =>
            /\ remaining_tasks # <<>>
            /\ FirstReady(remaining_tasks) # 0
            /\ Len(remaining_tasks') < Len(remaining_tasks)]_vars

\* C36 witness: no public gateway is configured and the local task failed in
\* Phase 1: Phase 2 began with nothing to await and ended with
\* smart_ipfs_fetch_failed.
C36_Witness ==
    /\ epc = "done"
    /\ public_gateways = 0
    /\ local_consumed
    /\ Len(records) >= 2
    /\ records[Len(records) - 1].event = "smart_ipfs_fallback_start"
    /\ Last(records).event = "smart_ipfs_fetch_failed"


\* The index of the smart_ipfs_fallback_start record (0: Phase 2 has not begun).
FallbackAt ==
    LET at == {i \in 1..Len(records) : records[i].event = "smart_ipfs_fallback_start"}
    IN IF at = {} THEN 0 ELSE CHOOSE i \in at : TRUE

\* The per-gateway failure records of Phase 2 before records[i].
Phase2FailuresBefore(i) ==
    {j \in (FallbackAt + 1)..(i - 1) :
        records[j].event \in {"smart_ipfs_local_failed", "smart_ipfs_public_failed"}}

\* C37: failed_gateways_count of a terminal record is the number of
\* smart_ipfs_local_failed and smart_ipfs_public_failed records of Phase 2
\* before it: the local failure of Phase 1 and the smart_ipfs_task_error records
\* are not counted.
C37_FailedCount ==
    \A i \in 1..Len(records) :
        records[i].failed_count # -1 =>
            /\ records[i].event \in {"smart_ipfs_fetch_success", "smart_ipfs_fetch_failed"}
            /\ FallbackAt # 0
            /\ records[i].failed_count = Cardinality(Phase2FailuresBefore(i))

\* C37 witness: the local task failed in Phase 1 and the one public task in
\* Phase 2: smart_ipfs_fetch_failed counts one failed gateway of the two.
C37_Witness ==
    /\ epc = "done"
    /\ public_gateways = 1
    /\ Last(records).event = "smart_ipfs_fetch_failed"
    /\ Last(records).failed_count = 1
    /\ records[2].event = "smart_ipfs_local_failed"
    /\ FallbackAt = 3


(***************************************************************************)
(* Properties of the sends of run_once.                                    *)
(***************************************************************************)
\* A send of a protocol command (PONG, or a command of the handshake) failed.
CommandSendFailed == pc = "running" /\ io'.op = "send_failed" /\ io'.what # "ws_pong"

\* The send of the Pong reply to a WebSocket Ping failed.
PongSendFailed == PingRead /\ io'.op = "send_failed"

\* C38: a failed send of the PONG reply to a PING line, or of a command of
\* the handshake, makes run_once return Err; a failed send of the Pong reply to a
\* WebSocket Ping is ignored and the Session keeps reading.
C38_SendFailures ==
    /\ [][CommandSendFailed =>
            /\ io'.what \in {"PONG"} \cup {HandshakeCmds[i] : i \in 1..4}
            /\ pc' = "failed"
            /\ Last(events') = Ev("return_err", "send failed", <<>>, <<>>, 0, 0)
            /\ connected' = connected]_vars
    /\ [][PongSendFailed =>
            /\ io'.what = "ws_pong"
            /\ pc' = "running"
            /\ NeedsRead(Sess)
            /\ UNCHANGED <<FramerState, events>>]_vars
    /\ [][(pc = "running" /\ pc' = "failed" /\ Last(events').arg = "send failed") =>
            io'.op = "send_failed"]_vars

\* C38 witness: the Pong reply to a WebSocket Ping could not be sent, the
\* Session went on to shake hands and dispatch a Message, and then returned Err
\* when the PONG reply to the PING line could not be sent.
C38_Witness ==
    /\ pc = "failed"
    /\ pings = 1
    /\ EventsOf(events, {"send"}) = [i \in 1..4 |-> SendEv(HandshakeCmds[i])]
    /\ Dispatched(events) = 1
    /\ io = [op |-> "send_failed", what |-> "PONG"]


(***************************************************************************)
(* The non-hedged binary (main.rs): try_spawn_ipfs_fetch (375-438) spawns  *)
(* one ipfs_fetch_and_log (289-373) per gateway of ipfs.gateways for a     *)
(* Message.  The tasks are tasks[1..n], n in public_gateways, and what     *)
(* they print is in records; a task is "unspawned" until it has built its  *)
(* client.  smart_ipfs_enabled stands for ipfs.enabled and config.max_bytes *)
(* for ipfs.max_bytes.                                                      *)
(***************************************************************************)
\* The subject and the payload of the Message that is dispatched.
PullMessages ==
    {<<COIN_IMAGE_UPDATED, IMAGE_BODY>>, <<COIN_IMAGE_UPDATED, <<"{", "}">>>>,
     <<COIN_IMAGE_UPDATED, <<"1", "2">>>>, <<ADVANCED_NEW_COIN_CREATED, IMAGE_BODY>>}

PullRec(event, t) == Rec(event, "", t, -1)

\* PullEnds that aborts the other tasks when one is done.
PullEndsCancelling(t, result) ==
    [u \in DOMAIN tasks |->
        IF u = t THEN result
        ELSE IF result.st = "ok" /\ ~IsFinished(u) THEN Task("aborted", 0, "")
        ELSE tasks[u]]

\* The task t goes on, or returns with its result; the other tasks are not touched.
PullEnds(t, result) == [tasks EXCEPT ![t] = result]

PullUnchanged ==
    UNCHANGED <<epc, local_consumed, remaining_tasks, failed_gateways, mainVars, sessionVars,
                envVars, fnVars, spawned, total_start, fallback_start>>

\* try_spawn_ipfs_fetch(subject, body, ipfs) with n gateways in ipfs.gateways:
\* for gw in gateways { tokio::spawn(ipfs_fetch_and_log(..)) }, or one ipfs_pull_skip.
PullDispatch(subject, body, n) ==
    /\ tasks = <<>>
    /\ records = <<>>
    /\ LET o == try_spawn_smart_ipfs_fetch(subject, body, smart_ipfs_enabled)
       IN /\ o.does # "none"
          /\ tasks' = IF o.does = "spawn" THEN [t \in 1..n |-> Unspawned] ELSE <<>>
          /\ records' = IF o.does = "skip" THEN <<Rec("ipfs_pull_skip", o.reason, -1, -1)>>
                        ELSE <<>>
          /\ public_gateways' = IF o.does = "spawn" THEN n ELSE 0
    /\ PullUnchanged

\* reqwest::Client::builder().timeout(..).build(): Err prints ipfs_pull_error
\* and returns, Ok prints ipfs_pull_start and the request is sent.
PullClient(t, ok) ==
    /\ tasks[t].st = "unspawned"
    /\ tasks' = PullEnds(t, IF ok THEN Spawned ELSE Task("err", 0, "client_build"))
    /\ records' = Append(records, PullRec(IF ok THEN "ipfs_pull_start" ELSE "ipfs_pull_error", t))
    /\ UNCHANGED public_gateways
    /\ PullUnchanged

\* match client.get(final_url).send().await: the body stream opens, or the
\* status is not a success, or the request failed (its timeout included).
PullRespond(t, outcome) ==
    /\ tasks[t].st = "request"
    /\ tasks' = PullEnds(t, IF outcome = "stream" THEN Task("stream", 0, "")
                            ELSE Task("err", 0, outcome))
    /\ records' = IF outcome = "stream" THEN records
                  ELSE Append(records, PullRec("ipfs_pull_error", t))
    /\ UNCHANGED public_gateways
    /\ PullUnchanged

\* Ok(chunk) => { bytes += chunk.len(); if bytes >= ipfs.max_bytes { break; } }
\* and, after the loop, print_line("ipfs_pull_done").
PullChunk(t, n) ==
    /\ tasks[t].st = "stream"
    /\ tasks' = PullEnds(t, AfterChunk(tasks[t].bytes, n))
    /\ records' = IF AfterChunk(tasks[t].bytes, n).st = "ok"
                  THEN Append(records, PullRec("ipfs_pull_done", t))
                  ELSE records
    /\ UNCHANGED public_gateways
    /\ PullUnchanged

\* stream.next().await yields None (ipfs_pull_done) or Some(Err(e)) (ipfs_pull_error).
PullStreamEnd(t, ok) ==
    /\ tasks[t].st = "stream"
    /\ tasks' = PullEnds(t, IF ok THEN Task("ok", tasks[t].bytes, "")
                            ELSE Task("err", tasks[t].bytes, "stream_error"))
    /\ records' = Append(records, PullRec(IF ok THEN "ipfs_pull_done" ELSE "ipfs_pull_error", t))
    /\ UNCHANGED public_gateways
    /\ PullUnchanged

PullNext ==
    \/ \E m \in PullMessages, n \in 1..MaxPublic : PullDispatch(m[1], m[2], n)
    \/ \E t \in DOMAIN tasks, ok \in BOOLEAN : PullClient(t, ok)
    \/ \E t \in DOMAIN tasks, o \in {"stream", "request_failed", "http_status"} : PullRespond(t, o)
    \/ \E t \in DOMAIN tasks, n \in 1..MaxChunk : PullChunk(t, n)
    \/ \E t \in DOMAIN tasks, ok \in BOOLEAN : PullStreamEnd(t, ok)

\* The runtime keeps polling a spawned task, and a request ends by its
\* response, the end of its stream, an error or its timeout.
PullSpec == Init /\ [][PullNext]_vars /\ WF_vars(PullNext)

(***************************************************************************)
(* Properties of the non-hedged fetch.                                     *)
(***************************************************************************)
\* The terminal records about task t.
TerminalsOf(t) ==
    SelectSeq(records, LAMBDA r : r.task = t /\ r.event \in {"ipfs_pull_done", "ipfs_pull_error"})

\* One task per gateway, all spawned by the dispatch of the Message, none
\* running before another is spawned.
C39_SpawnedAtOnce ==
    (tasks = <<>> /\ tasks' # <<>>) =>
        /\ DOMAIN tasks' = 1..public_gateways'
        /\ public_gateways' >= 1
        /\ \A t \in DOMAIN tasks' : tasks'[t] = Unspawned
        /\ records' = <<>>

\* A step is of one task; the others stay as they are, whatever the task did.
C39_Independent ==
    tasks # <<>> =>
        /\ DOMAIN tasks' = DOMAIN tasks
        /\ Cardinality({t \in DOMAIN tasks : tasks'[t] # tasks[t]}) <= 1
        /\ \A t \in DOMAIN tasks : IsFinished(t) => tasks'[t] = tasks[t]

\* A task that returned has printed one terminal record, one that runs none.
C39_OneTerminal ==
    \A t \in DOMAIN tasks :
        /\ Len(TerminalsOf(t)) = IF IsFinished(t) THEN 1 ELSE 0
        /\ tasks[t].st = "ok" => TerminalsOf(t)[1].event = "ipfs_pull_done"
        /\ tasks[t].st = "err" => TerminalsOf(t)[1].event = "ipfs_pull_error"
        /\ tasks[t].st # "aborted"

====
